---- MODULE Spec2Model ----
(***************************************************************************)
(* RTP-over-QUIC multiplexer / demultiplexer (bbc/gst-roq).                *)
(*                                                                         *)
(* Three specifications share this module:                                 *)
(*   SpecFlow  the process-wide flow-id manager and the flow-id            *)
(*             properties of several rtpquicmux instances;                 *)
(*   Spec      one rtpquicmux instance: its properties, its RTP and RTCP   *)
(*             chain functions and the unlinked callback of its pads;      *)
(*   SpecRT    the stream framing written by the muxer, cut into chunks    *)
(*             by the transport and reassembled by rtpquicdemux's chain.   *)
(***************************************************************************)
EXTENDS Integers, Sequences, FiniteSets, TLC

(***************************************************************************)
(* Bounds of the model.                                                    *)
(***************************************************************************)
\* flow identifiers that are drawn or written: 0..MaxFlowId
MaxFlowId == 2
\* rtpquicmux instances that may exist in the process
MaxMux == 2

\* buffers handed to the chain functions of the muxer under study
MaxPkts == 3
\* largest stream-packing value written
MaxRatio == 2

\* buffers the muxer frames on the stream that is carried to the demuxer
MaxRtPkts == 3
\* largest payload, in bytes, of such a buffer
MaxPayload == 2

FlowIds == 0..MaxFlowId
Muxers == 1..MaxMux
\* the muxer whose pads and streams are modelled
Self == 1
\* the flow identifier that muxer drew when it was constructed
DrawnFlowId == 1

\* (SSRC, payload type) pairs of the caps of the RTP sink pads
Keys == {<<1, 96>>}
\* RTCP sink pads
RtcpSinks == {"rtcp_sink_0"}
\* sizes in bytes of the buffers given to the muxer (the length varint of
\* such a buffer takes two bytes)
BufLens == {70}

\* flow identifiers of the muxer whose stream is carried to the demuxer: one
\* whose varint takes one byte, one whose varint takes two
RtFlowIds == {1, 64}
\* the QUIC stream carried to the demuxer
RtStream == "uni_stream"

VARIABLES
    flow_ids,        \* GstROQFlowIDManager.flow_ids: the list of claimed ids
    alive,           \* the rtpquicmux instances that have been constructed
    rtp_flow_id,     \* GstRtpQuicMux.rtp_flow_id, per instance
    rtcp_flow_id,    \* GstRtpQuicMux.rtcp_flow_id, per instance (-1: unset)
    claimed,         \* ids claimed from the manager by its callers, not released
    flast,           \* the last flow-id operation, its inputs and its result
    \* --- the muxer under study (Self) ---
    stream_boundary,
    stream_packing_ratio,
    uni_stream_type,
    use_datagrams,
    add_uni_stream_header,
    datagram_pad,    \* FALSE: NULL
    pad_n,
    ssrcs,           \* (ssrc, pt) -> RtpQuicMuxStream, for the pairs seen
    src_pads,        \* stream pad -> (ssrc, pt) of its RtpQuicMuxStream
    rtcp_pads,       \* RTCP sink pad -> RTCP stream pad
    mutex_depth,     \* g_rec_mutex_lock calls on roqmux->mutex not yet undone
    aborted,         \* the process ended in g_error / g_assert
    \* --- what the muxer has done, kept for the properties ---
    pads,            \* per stream pad created: what was pushed on it
    dgrams,          \* datagrams pushed, newest last: their flow id and size
    last,            \* the last handler that ran, its inputs and its result
    npkts,           \* buffers handed to the chain functions so far
    \* --- one stream of the muxer, carried to a demuxer ---
    sent,            \* the buffers the muxer was given for the stream
    wire,            \* the bytes the muxer pushed on the stream
    delivered,       \* how many of them the transport has handed on
    demux_rtp_flow_id,   \* GstRtpQuicDemux.rtp_flow_id
    demux_rtcp_flow_id,  \* GstRtpQuicDemux.rtcp_flow_id
    quic_streams,    \* GstRtpQuicDemux.quic_streams: id -> RtpQuicDemuxStream
    out,             \* the buffers the demuxer pushed downstream
    parsed,          \* the headers the demuxer read
    demux_rv,        \* the last return of the demuxer's chain function
    \* --- the routing of one demuxer ---
    src_ssrcs,       \* GstRtpQuicDemux.src_ssrcs: (ssrc, pt) -> RTP src pad
    demux_pads,      \* the src pads the demuxer created, oldest first
    rtcp_explicit,   \* rtcp-flow-id was written with a value other than -1
    dlast,           \* the last handler of the demuxer, its inputs and result
    \* --- the demuxer's side of the carried stream ---
    demux_uni_stream_type,        \* GstRtpQuicDemux.uni_stream_type
    demux_match_uni_stream_type,  \* GstRtpQuicDemux.match_uni_stream_type
    stream_announced,  \* the stream-open query was made for the stream
    stream_fin,        \* a chunk with the final flag was given to the demuxer
    type_rejected,     \* the stream's type was found not to match
    slast,             \* the last handler run for the stream and its result
    \* --- the src pads requested from the demuxer ---
    pending_req_sinks, \* GstRtpQuicDemux.pending_req_sinks, oldest first
    pend_n,            \* src pads requested so far
    plast,             \* the last handler that used the list and its result
    \* --- threads of the process, each inside one call ---
    tpc,               \* per thread: the place in the code it has reached
    tlocal,            \* per thread: the local variables of its call
    mgr_self,          \* the static self of the manager's constructor (0: NULL)
    mgr_lists,         \* flow_ids of every manager instance constructed
    \* --- one muxer fed by several streaming threads ---
    stream_table,      \* roqmux->ssrcs for the one (ssrc, pt) fed (0: no entry)
    stream_objs,       \* every RtpQuicMuxStream allocated, with its mutex
    rec_mutex,         \* roqmux->mutex: owning thread (0: none) and depth
    tpads,             \* the stream pads the threads opened
    tsrc_pads,         \* roqmux->src_pads: stream pad -> RtpQuicMuxStream
    tlog,              \* what the threads did so far, kept for the properties
    tcb                \* the unlinked callback waiting for a stream's mutex

flowVars == <<flow_ids, alive, rtp_flow_id, rtcp_flow_id, claimed, flast>>
cfgVars == <<stream_boundary, stream_packing_ratio, uni_stream_type,
             use_datagrams, add_uni_stream_header>>
muxVars == <<datagram_pad, pad_n, ssrcs, src_pads, rtcp_pads, mutex_depth,
             pads, dgrams, npkts>>
routeVars == <<src_ssrcs, demux_pads, rtcp_explicit, dlast>>
streamVars == <<demux_uni_stream_type, demux_match_uni_stream_type,
                stream_announced, stream_fin, type_rejected, slast>>
pendVars == <<pending_req_sinks, pend_n, plast>>
muxThrVars == <<stream_table, stream_objs, rec_mutex, tpads, tsrc_pads, tlog,
                tcb>>
thrVars == <<tpc, tlocal, mgr_self, mgr_lists, muxThrVars>>
rtVars == <<sent, wire, delivered, demux_rtp_flow_id, demux_rtcp_flow_id,
            quic_streams, out, parsed, demux_rv, routeVars, streamVars,
            pendVars, thrVars>>
vars == <<flow_ids, alive, rtp_flow_id, rtcp_flow_id, claimed, flast,
          stream_boundary,
          stream_packing_ratio, uni_stream_type, use_datagrams,
          add_uni_stream_header, datagram_pad, pad_n, ssrcs, src_pads,
          rtcp_pads, mutex_depth, aborted, pads, dgrams, last, npkts,
          sent, wire, delivered, demux_rtp_flow_id, demux_rtcp_flow_id,
          quic_streams, out, parsed, demux_rv, src_ssrcs, demux_pads,
          rtcp_explicit, dlast, demux_uni_stream_type,
          demux_match_uni_stream_type, stream_announced, stream_fin,
          type_rejected, slast, pending_req_sinks, pend_n, plast,
          tpc, tlocal, mgr_self, mgr_lists, stream_table, stream_objs,
          rec_mutex, tpads, tsrc_pads, tlog, tcb>>

(***************************************************************************)
(* gstroqflowidmanager.c                                                   *)
(***************************************************************************)
_check_flow_id_in_use(list, flow_id) ==
    \E i \in 1..Len(list) : list[i] = flow_id

\* The list after gst_roq_flow_id_manager_new_flow_id (flow_id).
new_flow_id_list(list, flow_id) ==
    IF ~_check_flow_id_in_use(list, flow_id) THEN Append(list, flow_id) ELSE list

\* Variant of new_flow_id_rv: the claim always succeeds.
new_flow_id_always(list, flow_id) == TRUE

\* The value gst_roq_flow_id_manager_new_flow_id (flow_id) returns.
new_flow_id_rv(list, flow_id) == ~_check_flow_id_in_use(list, flow_id)

\* Variant of retire_flow_id: the list is left as it is.
retire_nothing(list, flow_id) == list

\* The list after gst_roq_flow_id_manager_retire_flow_id (flow_id): the first
\* link holding flow_id is deleted.
retire_flow_id(list, flow_id) ==
    IF _check_flow_id_in_use(list, flow_id)
    THEN LET i == CHOOSE j \in 1..Len(list) :
                    /\ list[j] = flow_id
                    /\ \A h \in 1..(j - 1) : list[h] # flow_id
         IN  SubSeq(list, 1, i - 1) \o SubSeq(list, i + 1, Len(list))
    ELSE list

\* No flow-id operation has run.
NoFlowLast ==
    [op |-> "none", m |-> 0, value |-> -1, rv |-> FALSE, in_use |-> FALSE,
     held |-> FALSE, flow_ids |-> <<>>, rtp |-> -1, rtcp |-> -1]

\* What is kept of the operation op of muxer m with input value: whether the
\* value was in the manager's list, the list and the muxer's flow ids before.
flow_mark(op, m, value) ==
    [op |-> op, m |-> m, value |-> value, rv |-> FALSE,
     in_use |-> _check_flow_id_in_use(flow_ids, value),
     held |-> value \in claimed, flow_ids |-> flow_ids, rtp |-> rtp_flow_id[m], rtcp |-> rtcp_flow_id[m]]

(***************************************************************************)
(* gstrtpquicmux.c: construction and the flow-id properties                *)
(***************************************************************************)
\* gst_rtp_quic_mux_init: draws until new_flow_id succeeds.
gst_rtp_quic_mux_init(m) ==
    /\ m \notin alive
    /\ \E id \in FlowIds :
         /\ new_flow_id_rv(flow_ids, id)
         /\ flow_ids' = new_flow_id_list(flow_ids, id)
         /\ rtp_flow_id' = [rtp_flow_id EXCEPT ![m] = id]
    /\ rtcp_flow_id' = [rtcp_flow_id EXCEPT ![m] = -1]
    /\ alive' = alive \cup {m}
    /\ flast' = [flow_mark("init", m, rtp_flow_id'[m]) EXCEPT !.rv = TRUE]
    /\ UNCHANGED claimed

\* gst_rtp_quic_mux_finalize: the object is destroyed; its fields are shown
\* as they were when it went.
gst_rtp_quic_mux_finalize(m) ==
    /\ m \in alive
    /\ alive' = alive \ {m}
    /\ flast' = flow_mark("finalize", m, rtp_flow_id[m])
    /\ UNCHANGED <<flow_ids, rtp_flow_id, rtcp_flow_id, claimed>>

\* The manager's list after a successful PROP_RTP_FLOW_ID write.
rtp_flow_id_retire(list, old_rtp, old_rtcp, flow_id) ==
    LET l1 == retire_flow_id(list, old_rtp)
    IN  IF old_rtcp = -1
        THEN new_flow_id_list(retire_flow_id(l1, old_rtp + 1), flow_id)
        ELSE l1

\* gst_rtp_quic_mux_set_property, case PROP_RTP_FLOW_ID.
set_property_rtp_flow_id(m, value) ==
    /\ m \in alive
    /\ \E flow_id \in FlowIds :
         /\ IF value = -1
            THEN ~_check_flow_id_in_use(flow_ids, flow_id)
            ELSE flow_id = value
         /\ IF new_flow_id_rv(flow_ids, flow_id)
            THEN /\ flow_ids' = rtp_flow_id_retire(
                                    new_flow_id_list(flow_ids, flow_id),
                                    rtp_flow_id[m], rtcp_flow_id[m], flow_id)
                 /\ rtp_flow_id' = [rtp_flow_id EXCEPT ![m] = flow_id]
            ELSE UNCHANGED <<flow_ids, rtp_flow_id>>
    /\ flast' = [flow_mark("rtp-flow-id", m, value) EXCEPT
                    !.rv = rtp_flow_id'[m] # rtp_flow_id[m]]
    /\ UNCHANGED <<alive, rtcp_flow_id, claimed>>

\* The manager's list after a successful explicit PROP_RTCP_FLOW_ID write.
rtcp_flow_id_retire(list, old_rtp, old_rtcp, new_flow_id) ==
    IF old_rtcp = -1
    THEN retire_flow_id(list, old_rtp + 1)
    ELSE new_flow_id_list(retire_flow_id(list, old_rtcp), new_flow_id)

\* gst_rtp_quic_mux_set_property, case PROP_RTCP_FLOW_ID.
set_property_rtcp_flow_id(m, new_flow_id) ==
    /\ m \in alive
    /\ IF new_flow_id = -1
       THEN /\ rtcp_flow_id' = [rtcp_flow_id EXCEPT ![m] =
                   IF rtp_flow_id[m] = -1 THEN -1 ELSE rtp_flow_id[m] + 1]
            /\ UNCHANGED flow_ids
       ELSE IF new_flow_id_rv(flow_ids, new_flow_id)
       THEN /\ flow_ids' = rtcp_flow_id_retire(
                               new_flow_id_list(flow_ids, new_flow_id),
                               rtp_flow_id[m], rtcp_flow_id[m], new_flow_id)
            /\ rtcp_flow_id' = [rtcp_flow_id EXCEPT ![m] = new_flow_id]
       ELSE UNCHANGED <<flow_ids, rtcp_flow_id>>
    /\ flast' = [flow_mark("rtcp-flow-id", m, new_flow_id) EXCEPT
                    !.rv = rtcp_flow_id'[m] # rtcp_flow_id[m]]
    /\ UNCHANGED <<alive, rtp_flow_id, claimed>>

(***************************************************************************)
(* The variable-length integer of gstquiccommon (RFC 9000, section 16):    *)
(* the two top bits of the first byte give the length 1, 2, 4 or 8.        *)
(***************************************************************************)
\* gst_quiclib_set_varint (value, NULL): the encoded size in bytes.
varint_size(value) ==
    IF value < 64 THEN 1
    ELSE IF value < 16384 THEN 2
    ELSE IF value < 1073741824 THEN 4
    ELSE 8


(***************************************************************************)
(* The bytes of a stream: the varint codec and the header the muxer writes *)
(***************************************************************************)
\* The two top bits of the first byte of a varint of n bytes.
varint_prefix(n) ==
    CASE n = 1 -> 0 [] n = 2 -> 64 [] n = 4 -> 128 [] OTHER -> 192

\* gst_quiclib_set_varint (value, data): the bytes written, big-endian.
set_varint(value) ==
    LET n == varint_size(value)
        pow256[k \in 0..7] == IF k = 0 THEN 1 ELSE 256 * pow256[k - 1]
    IN  [i \in 1..n |->
           (IF i = 1 THEN varint_prefix(n) ELSE 0)
           + ((value \div pow256[n - i]) % 256)]

\* The number read big-endian from bytes, the first byte without its two top
\* bits.
varint_value(bytes) ==
    LET acc[i \in 0..Len(bytes)] ==
            IF i = 0 THEN 0
            ELSE 256 * acc[i - 1]
                 + (IF i = 1 THEN bytes[1] % 64 ELSE bytes[i])
    IN  acc[Len(bytes)]

\* gst_quiclib_get_varint (data + off, &value) on a mapped buffer: the bytes
\* used and the value, or short when the varint does not end within data.
get_varint(data, off) ==
    IF off + 1 > Len(data)
    THEN [short |-> TRUE, len |-> 0, value |-> 0]
    ELSE LET first == data[off + 1]
             n == IF first < 64 THEN 1
                  ELSE IF first < 128 THEN 2
                  ELSE IF first < 192 THEN 4 ELSE 8
         IN  IF off + n > Len(data)
             THEN [short |-> TRUE, len |-> n, value |-> 0]
             ELSE [short |-> FALSE, len |-> n,
                   value |-> varint_value(SubSeq(data, off + 1, off + n))]

\* rtp_quic_mux_write_payload_header: the bytes put before the buffer.
payload_header(buf_len, stream_type, flow_id, length) ==
    (IF stream_type >= 0 THEN set_varint(stream_type) ELSE <<>>)
    \o (IF flow_id >= 0 THEN set_varint(flow_id) ELSE <<>>)
    \o (IF length THEN set_varint(buf_len) ELSE <<>>)

(***************************************************************************)
(* gstrtpquicmux.c: the stream and datagram paths of one muxer             *)
(***************************************************************************)
NullPad == 0

\* g_new0 (RtpQuicMuxStream, 1)
NewMuxStream ==
    [stream_pad |-> NullPad, stream_offset |-> 0, counter |-> 0,
     frame_cancelled |-> FALSE]

\* A stream pad as created: nothing pushed on it yet.
NewPadRecord(kind, owner, state) ==
    [kind |-> kind, owner |-> owner, state |-> state, frames |-> 0,
     flow_hdrs |-> 0, first_flow |-> FALSE, bytes |-> 0, units |-> 0]

NoLast ==
    [op |-> "none", key |-> <<0, 0>>, marker |-> FALSE, delta |-> FALSE,
     pushed |-> NullPad, flow |-> -1, type |-> -1, res |-> "none",
     rv |-> "OK", was_cancelled |-> FALSE, value |-> FALSE, opened |-> 0,
     rtp_flow |-> -1]

\* g_hash_table_insert / g_hash_table_remove
hash_insert(table, key, value) ==
    [x \in (DOMAIN table) \cup {key} |-> IF x = key THEN value ELSE table[x]]

hash_remove(table, key) ==
    [x \in (DOMAIN table) \ {key} |-> table[x]]

\* gst_element_remove_pad on the muxer: the stream of that pad is closed.
\* A NULL pad is refused by the call's own check.  why records the caller:
\* "closed" the boundary policy, "stopped" the GST_FLOW_QUIC_STREAM_CLOSED
\* branch, "unlinked" the unlinked callback.
gst_element_remove_pad(padlist, pad, why) ==
    IF pad \in 1..Len(padlist)
    THEN [padlist EXCEPT ![pad].state = why]
    ELSE padlist

\* The GstFlowReturn values below GST_FLOW_OK.  GST_FLOW_QUIC_BLOCKED is
\* set by gstquiccommon.h, which is not part of these sources: whether it is
\* negative is left open (the chain function takes either outcome).
flow_is_negative(rv, blocked_negative) ==
    \/ rv \in {"ERROR", "NOT_LINKED", "NOT_NEGOTIATED", "QUIC_STREAM_CLOSED"}
    \/ (rv = "QUIC_BLOCKED" /\ blocked_negative)

\* rtp_quic_mux_write_payload_header: the bytes prepended to a buffer of
\* buf_len bytes; stream_type and flow_id are left out when negative.
payload_header_len(buf_len, stream_type, flow_id, length) ==
    (IF stream_type >= 0 THEN varint_size(stream_type) ELSE 0)
    + (IF flow_id >= 0 THEN varint_size(flow_id) ELSE 0)
    + (IF length THEN varint_size(buf_len) ELSE 0)

\* rtp_quic_mux_new_uni_src_pad.  c holds the muxer state a chain function
\* works on; the result has the new pad in rv (NullPad when the link to
\* quicmux fails: the function then returns with roqmux->mutex still locked).
rtp_quic_mux_new_uni_src_pad(c, kind, owner, link) ==
    [c EXCEPT
       !.pads = Append(@, NewPadRecord(kind, owner,
                   IF link = "ok" THEN "linked" ELSE "failed")),
       !.pad_n = @ + 1,
       !.depth = IF link = "ok" THEN @ ELSE @ + 1,
       !.rv = IF link = "ok" THEN Len(c.pads) + 1 ELSE NullPad]

\* Open a stream for c.st and enter it in src_pads (lines 1027-1030 and
\* 1052-1055).
open_stream(c, key, link) ==
    LET n == rtp_quic_mux_new_uni_src_pad(c, "rtp", key, link)
    IN  [n EXCEPT !.st.stream_pad = n.rv,
                  !.src_pads = hash_insert(n.src_pads, n.rv, key),
                  !.st.stream_offset = 0]

\* Lines 1026-1031.
open_stream_if_none(c, key, link) ==
    IF c.st.stream_pad = NullPad THEN open_stream(c, key, link) ELSE c

\* Close the stream of c.st and forget its pad (lines 1195-1201 and
\* 1232-1236).
close_stream(c, why) ==
    IF c.st.stream_pad # NullPad
    THEN [c EXCEPT !.src_pads = hash_remove(@, c.st.stream_pad),
                   !.pads = gst_element_remove_pad(@, c.st.stream_pad, why),
                   !.st.stream_pad = NullPad]
    ELSE c

\* Lines 1041-1058: the boundary policy before the push.
boundary_before_push(c, key, marker, delta, link) ==
    IF stream_boundary = "FRAME" /\ marker
    THEN [c EXCEPT !.st.counter = @ + 1]
    ELSE IF stream_boundary = "GOP" /\ ~delta
    THEN IF c.st.counter + 1 > stream_packing_ratio
         THEN LET c1 == [c EXCEPT
                           !.src_pads = hash_remove(@, c.st.stream_pad),
                           !.pads = gst_element_remove_pad(@, c.st.stream_pad,
                                                           "closed")]
                  c2 == open_stream(c1, key, link)
              IN  [c2 EXCEPT !.st.counter = 0]
         ELSE [c EXCEPT !.st.counter = @ + 1]
    ELSE c

\* Lines 1060-1066: what is written before the buffer.
rtp_stream_header(stream_offset) ==
    IF stream_offset = 0
    THEN [type |-> IF add_uni_stream_header THEN uni_stream_type ELSE -1,
          flow |-> rtp_flow_id[Self]]
    ELSE [type |-> -1, flow |-> -1]

\* gst_buffer_get_size of a buffer of buf_len bytes once header hdr and the
\* length are written before it.
framed_size(buf_len, hdr) ==
    payload_header_len(buf_len, hdr.type, hdr.flow, TRUE) + buf_len

\* Variant of advance_stream_offset: the offset is left as it is.
stream_offset_not_advanced(stream_offset, size) == stream_offset

\* Line 1071: stream_offset after a buffer of size bytes is handed over.
advance_stream_offset(stream_offset, size) == stream_offset + size

\* Whether a buffer starts a unit of the boundary policy in force: a buffer
\* with MARKER in FRAME mode, a buffer without DELTA_UNIT in GOP mode.
boundary_unit(marker, delta) ==
    \/ (stream_boundary = "FRAME" /\ marker)
    \/ (stream_boundary = "GOP" /\ ~delta)

\* gst_pad_push on a stream pad, as seen from outside the muxer.
pushed_on(padlist, pad, size, hdr, unit) ==
    [padlist EXCEPT ![pad] =
       [@ EXCEPT !.frames = @ + 1,
                 !.bytes = @ + size,
                 !.flow_hdrs = @ + (IF hdr.flow >= 0 THEN 1 ELSE 0),
                 !.first_flow = IF padlist[pad].frames = 0
                                THEN hdr.flow >= 0 ELSE @,
                 !.units = @ + (IF unit THEN 1 ELSE 0)]]

\* Variant of frame_after_push: the boundary mode is not looked at.
frame_after_push_any_mode(c) ==
    IF c.st.counter + 1 >= stream_packing_ratio
    THEN [close_stream(c, "closed") EXCEPT !.st.counter = 0]
    ELSE [c EXCEPT !.st.counter = @ + 1]

\* Lines 1188-1204: the FRAME policy after the push.
frame_after_push(c) ==
    IF stream_boundary = "FRAME"
    THEN IF c.st.counter + 1 >= stream_packing_ratio
         THEN [close_stream(c, "closed") EXCEPT !.st.counter = 0]
         ELSE [c EXCEPT !.st.counter = @ + 1]
    ELSE c

\* Variant of stream_closed: the counter is left as it is.
stream_closed_keeps_counter(c) ==
    close_stream([c EXCEPT !.st.frame_cancelled = TRUE], "stopped")

\* Lines 1206-1240: the peer stopped reading the stream.
stream_closed(c) ==
    [close_stream([c EXCEPT !.st.frame_cancelled = TRUE], "stopped")
       EXCEPT !.st.counter = 0]

\* The muxer state a chain function works on.
chain_context(st) ==
    [st |-> st, pads |-> pads, src_pads |-> src_pads, pad_n |-> pad_n,
     depth |-> mutex_depth, rv |-> NullPad]

\* Writes the state a chain function leaves.
chain_commit(c, key) ==
    /\ ssrcs' = hash_insert(ssrcs, key, c.st)
    /\ pads' = c.pads
    /\ src_pads' = c.src_pads
    /\ pad_n' = c.pad_n
    /\ mutex_depth' = c.depth

\* _rtp_quic_mux_open_datagram_pad, when datagram_pad is NULL.
datagram_pad_opened == TRUE

\* Variant of datagram_header: the length of the buffer is written too.
datagram_header_with_length(buf_len, flow_id) ==
    payload_header(buf_len, -1, flow_id, TRUE)

\* Lines 1088 and 1273: what is written before a buffer that goes out in a
\* datagram.
datagram_header(buf_len, flow_id) ==
    payload_header(buf_len, -1, flow_id, FALSE)

\* gst_pad_push on the datagram pad, as seen from outside the muxer: the
\* bytes before the buffer, the size of the whole, and whether the pad was
\* created for this buffer.
pushed_datagram(kind, buf_len, flow_id) ==
    LET hdr == datagram_header(buf_len, flow_id)
    IN  [kind |-> kind, flow |-> flow_id, hdr |-> hdr, buf_len |-> buf_len,
         size |-> Len(hdr) + buf_len, opened_pad |-> ~datagram_pad]

\* gst_rtp_quic_mux_rtp_chain, use_datagrams set (lines 1081-1094, 1184).
rtp_chain_datagram(key, buf_len, marker, delta, res, blocked_negative) ==
    LET flow == rtp_flow_id[Self]
    IN  /\ res # "QUIC_STREAM_CLOSED"
        /\ datagram_pad' = datagram_pad_opened
        /\ dgrams' = Append(dgrams, pushed_datagram("rtp", buf_len, flow))
        /\ aborted' = flow_is_negative(res, blocked_negative)
        /\ last' = [NoLast EXCEPT !.op = "rtp", !.key = key,
                       !.marker = marker, !.delta = delta, !.pushed = -1,
                       !.flow = flow, !.res = res, !.rv = res]
        /\ UNCHANGED <<ssrcs, pads, src_pads, pad_n, mutex_depth>>

\* Variant of frame_cancelled_drops: nothing is dropped.
frame_cancelled_never_drops(st, marker) == FALSE

\* Lines 1015-1024: a buffer is dropped while the frame is cancelled, unless
\* it has MARKER.
frame_cancelled_drops(st, marker) == st.frame_cancelled /\ ~marker

\* gst_rtp_quic_mux_rtp_chain, use_datagrams not set.
rtp_chain_stream(key, buf_len, marker, delta, link, res, blocked_negative) ==
    LET st0 == IF key \in DOMAIN ssrcs THEN ssrcs[key] ELSE NewMuxStream
        c0 == chain_context(st0)
    IN  IF frame_cancelled_drops(st0, marker)
        THEN \* the frame was cancelled, the buffer is dropped
             /\ chain_commit(c0, key)
             /\ aborted' = FALSE
             /\ last' = [NoLast EXCEPT !.op = "rtp", !.key = key,
                            !.marker = marker, !.delta = delta,
                            !.was_cancelled = TRUE]
             /\ UNCHANGED <<datagram_pad, dgrams>>
        ELSE
        LET c1 == [c0 EXCEPT !.st.frame_cancelled = FALSE]
            c2 == open_stream_if_none(c1, key, link)
            c3 == boundary_before_push(c2, key, marker, delta, link)
            hdr == rtp_stream_header(c3.st.stream_offset)
            target == c3.st.stream_pad
            size == framed_size(buf_len, hdr)
            c4 == [c3 EXCEPT !.st.stream_offset =
                      advance_stream_offset(@, size)]
        IN  IF target = NullPad
            THEN \* lines 1096-1099: no pad to push on
                 /\ chain_commit(c4, key)
                 /\ aborted' = FALSE
                 /\ last' = [NoLast EXCEPT !.op = "rtp", !.key = key,
                                !.marker = marker, !.delta = delta,
                                !.flow = hdr.flow, !.type = hdr.type,
                                !.rv = "NOT_NEGOTIATED",
                                !.was_cancelled = st0.frame_cancelled,
                                !.opened = Len(c4.pads) - Len(pads)]
                 /\ UNCHANGED <<datagram_pad, dgrams>>
            ELSE
            LET c5 == [c4 EXCEPT !.pads =
                          pushed_on(@, target, size, hdr,
                                    boundary_unit(marker, delta))]
                c6 == frame_after_push(c5)
                c7 == IF res = "QUIC_STREAM_CLOSED"
                      THEN stream_closed(c6) ELSE c6
                rv == IF res = "QUIC_STREAM_CLOSED" THEN "OK" ELSE res
            IN  /\ chain_commit(c7, key)
                /\ aborted' = flow_is_negative(rv, blocked_negative)
                /\ last' = [NoLast EXCEPT !.op = "rtp", !.key = key,
                               !.marker = marker, !.delta = delta,
                               !.pushed = target, !.flow = hdr.flow,
                               !.type = hdr.type, !.res = res, !.rv = rv,
                               !.was_cancelled = st0.frame_cancelled,
                               !.opened = Len(c7.pads) - Len(pads)]
                /\ UNCHANGED <<datagram_pad, dgrams>>

\* gst_rtp_quic_mux_rtp_chain
gst_rtp_quic_mux_rtp_chain(key, buf_len, marker, delta, link, res, bn) ==
    /\ ~aborted
    /\ npkts < MaxPkts
    /\ npkts' = npkts + 1
    /\ IF use_datagrams
       THEN rtp_chain_datagram(key, buf_len, marker, delta, res, bn)
       ELSE rtp_chain_stream(key, buf_len, marker, delta, link, res, bn)
    /\ UNCHANGED <<flowVars, cfgVars, rtcp_pads, rtVars>>

\* Variant of rtcp_pad_lookup: the stream pad of the sink pad is not found.
rtcp_pad_never_found(table, sink) == FALSE

\* Line 1280: whether rtcp_pads holds a stream pad for the RTCP sink pad.
rtcp_pad_lookup(table, sink) == sink \in DOMAIN table

\* gst_rtp_quic_mux_rtcp_chain
gst_rtp_quic_mux_rtcp_chain(sink, buf_len, link, res) ==
    LET flow == IF rtcp_flow_id[Self] = -1
                THEN rtp_flow_id[Self] + 1 ELSE rtcp_flow_id[Self]
        c0 == chain_context(NewMuxStream)
        mark(pushed, hdr, r, rv) ==
            [NoLast EXCEPT !.op = "rtcp", !.pushed = pushed, !.flow = hdr.flow,
                           !.type = hdr.type, !.res = r, !.rv = rv,
                           !.rtp_flow = rtp_flow_id[Self]]
    IN
    /\ ~aborted
    /\ npkts < MaxPkts
    /\ npkts' = npkts + 1
    /\ rtcp_flow_id' = [rtcp_flow_id EXCEPT ![Self] = flow]
    /\ IF use_datagrams
       THEN /\ datagram_pad' = datagram_pad_opened
            /\ dgrams' = Append(dgrams, pushed_datagram("rtcp", buf_len, flow))
            /\ last' = mark(-1, [type |-> -1, flow |-> flow], res, res)
            /\ UNCHANGED <<pads, pad_n, mutex_depth, rtcp_pads>>
       ELSE IF ~rtcp_pad_lookup(rtcp_pads, sink)
       THEN LET n == rtp_quic_mux_new_uni_src_pad(c0, "rtcp", sink, link)
                hdr == [type |-> IF add_uni_stream_header
                                 THEN uni_stream_type ELSE -1,
                        flow |-> flow]
                size == framed_size(buf_len, hdr)
            IN  /\ pad_n' = n.pad_n
                /\ mutex_depth' = n.depth
                /\ IF n.rv = NullPad
                   THEN /\ pads' = n.pads
                        /\ last' = mark(NullPad, [type |-> -1, flow |-> -1],
                                        "none", "NOT_LINKED")
                        /\ UNCHANGED rtcp_pads
                   ELSE /\ rtcp_pads' = hash_insert(rtcp_pads, sink, n.rv)
                        /\ pads' = pushed_on(n.pads, n.rv, size, hdr, FALSE)
                        /\ last' = mark(n.rv, hdr, res, res)
                /\ UNCHANGED <<datagram_pad, dgrams>>
       ELSE LET target == rtcp_pads[sink]
                hdr == [type |-> -1, flow |-> -1]
                size == framed_size(buf_len, hdr)
                r == IF pads[target].state = "linked" THEN res
                     ELSE "NOT_LINKED"
            IN  /\ pads' = IF pads[target].state = "linked"
                           THEN pushed_on(pads, target, size, hdr, FALSE)
                           ELSE pads
                /\ last' = mark(target, hdr, r, r)
                /\ UNCHANGED <<datagram_pad, dgrams, pad_n, mutex_depth,
                               rtcp_pads>>
    /\ UNCHANGED <<flow_ids, alive, rtp_flow_id, claimed, flast, cfgVars,
                   ssrcs, src_pads, aborted, rtVars>>

\* rtp_quic_mux_pad_unlinked_callback: the transport unlinked stream pad self.
rtp_quic_mux_pad_unlinked_callback(self) ==
    /\ ~aborted
    /\ self \in 1..Len(pads)
    /\ pads[self].state = "linked"
    /\ IF self \in DOMAIN src_pads
       THEN LET key == src_pads[self]
                stream == ssrcs[key]
            IN  /\ pads' = gst_element_remove_pad(pads, stream.stream_pad,
                                                   "unlinked")
                /\ src_pads' = hash_remove(src_pads, stream.stream_pad)
                /\ ssrcs' = [ssrcs EXCEPT ![key].stream_pad = NullPad]
       ELSE /\ pads' = [pads EXCEPT ![self].state = "unlinked"]
            /\ UNCHANGED <<src_pads, ssrcs>>
    /\ last' = [NoLast EXCEPT !.op = "unlinked", !.pushed = self]
    /\ UNCHANGED <<flowVars, cfgVars, datagram_pad, pad_n, rtcp_pads,
                   mutex_depth, aborted, dgrams, npkts, rtVars>>

(***************************************************************************)
(* gst_rtp_quic_mux_set_property: the other properties                     *)
(***************************************************************************)
\* The properties are written while the element is configured, before the
\* first buffer reaches a chain function.
property_write(name, value) ==
    /\ ~aborted
    /\ npkts = 0
    /\ last' = [NoLast EXCEPT !.op = name, !.value = value]
    /\ UNCHANGED <<flowVars, muxVars, rtVars>>

\* case PROP_STREAM_BOUNDARY
set_property_stream_boundary(value) ==
    /\ property_write("stream-boundary", FALSE)
    /\ stream_boundary' = value
    /\ UNCHANGED <<stream_packing_ratio, uni_stream_type, use_datagrams,
                   add_uni_stream_header, aborted>>

\* case PROP_STREAM_PACKING
set_property_stream_packing(value) ==
    /\ property_write("stream-packing", FALSE)
    /\ stream_packing_ratio' = value
    /\ UNCHANGED <<stream_boundary, uni_stream_type, use_datagrams,
                   add_uni_stream_header, aborted>>

\* Variant of use_datagram_accepted: the other flag is not looked at.
use_datagram_always_accepted(value) == TRUE

\* case PROP_USE_DATAGRAM: whether the write is taken (g_error otherwise).
use_datagram_accepted(value) == ~add_uni_stream_header

\* case PROP_USE_DATAGRAM
set_property_use_datagram(value) ==
    /\ property_write("use-datagram", value)
    /\ IF use_datagram_accepted(value)
       THEN use_datagrams' = value /\ aborted' = FALSE
       ELSE aborted' = TRUE /\ UNCHANGED use_datagrams
    /\ UNCHANGED <<stream_boundary, stream_packing_ratio, uni_stream_type,
                   add_uni_stream_header>>

\* case PROP_USE_UNI_STREAM_HEADER: whether the write is taken.
use_uni_stream_hdr_accepted(value) == ~use_datagrams

\* case PROP_USE_UNI_STREAM_HEADER
set_property_use_uni_stream_hdr(value) ==
    /\ property_write("use-uni-stream-hdr", value)
    /\ IF use_uni_stream_hdr_accepted(value)
       THEN add_uni_stream_header' = value /\ aborted' = FALSE
       ELSE aborted' = TRUE /\ UNCHANGED add_uni_stream_header
    /\ UNCHANGED <<stream_boundary, stream_packing_ratio, uni_stream_type,
                   use_datagrams>>

(***************************************************************************)
(* Spec: one muxer, from its construction                                  *)
(***************************************************************************)
\* g_new0 / g_object_new (RTPQUICDEMUX_TYPE_STREAM): no buffer in progress.
NullBuf == [null |-> TRUE, data |-> <<>>]

\* No handler of the demuxer has run.
NoDemuxLast ==
    [op |-> "none", flow |-> -1, payload_type |-> 0, packet |-> <<>>,
     learned |-> FALSE, class |-> "none", ssrc |-> 0, target |-> 0,
     created |-> 0, pushed |-> <<>>, rv |-> "none", stream_id |-> -1,
     eos |-> {}]

\* No handler has run for the carried stream.
NoStreamLast ==
    [op |-> "none", size |-> 0, final |-> FALSE, first |-> FALSE,
     mismatch |-> FALSE, emitted |-> FALSE, rv |-> "none"]

\* The threads that run in the process at the same time.
Threads == {1, 2}

\* A thread that is in no call.
NoLocal == [flow_id |-> -1, manager |-> 0, rv |-> "none", calls |-> 0,
            won |-> {}, stream |-> 0, marker |-> FALSE, delta |-> FALSE,
            target |-> 0]

\* Nothing was done by the threads of the muxer.
NoThreadLog ==
    [unlocked |-> "none", order |-> "none", relocked |-> "none",
     removed_locked |-> FALSE, replaced |-> FALSE, overlap |-> "none"]

\* No unlinked callback of the muxer is waiting.
NoCallback == [pad |-> 0, stream |-> 0]

\* No handler has used the list of requested src pads.
NoPendingLast ==
    [op |-> "none", caps |-> "none", before |-> <<>>, rv |-> 0,
     ended |-> "none"]

\* gst_rtp_quic_demux_init, and nothing emitted on the carried stream yet.
InitRt ==
    /\ tpc = [t \in Threads |-> "idle"]
    /\ tlocal = [t \in Threads |-> NoLocal]
    /\ mgr_self = 0
    /\ mgr_lists = <<>>
    /\ stream_table = 0
    /\ stream_objs = <<>>
    /\ rec_mutex = [owner |-> 0, depth |-> 0]
    /\ tpads = <<>>
    /\ tsrc_pads = <<>>
    /\ tlog = NoThreadLog
    /\ tcb = NoCallback
    /\ pending_req_sinks = <<>>
    /\ pend_n = 0
    /\ plast = NoPendingLast
    /\ demux_uni_stream_type = 0
    /\ demux_match_uni_stream_type = FALSE
    /\ stream_announced = FALSE
    /\ stream_fin = FALSE
    /\ type_rejected = FALSE
    /\ slast = NoStreamLast
    /\ src_ssrcs = <<>>
    /\ demux_pads = <<>>
    /\ rtcp_explicit = FALSE
    /\ dlast = NoDemuxLast
    /\ sent = <<>>
    /\ wire = <<>>
    /\ delivered = 0
    /\ demux_rtp_flow_id = -1
    /\ demux_rtcp_flow_id = -1
    /\ quic_streams = <<>>
    /\ out = <<>>
    /\ parsed = <<>>
    /\ demux_rv = "OK"

\* The fields of the muxer under study after gst_rtp_quic_mux_init (the
\* fields the function does not set are zero).
InitMuxFields ==
    /\ stream_boundary = "SINGLE"
    /\ stream_packing_ratio = 1
    /\ uni_stream_type = 0
    /\ use_datagrams = FALSE
    /\ add_uni_stream_header = FALSE
    /\ datagram_pad = FALSE
    /\ pad_n = 0
    /\ ssrcs = <<>>
    /\ src_pads = <<>>
    /\ rtcp_pads = <<>>
    /\ mutex_depth = 0
    /\ aborted = FALSE
    /\ pads = <<>>
    /\ dgrams = <<>>
    /\ last = NoLast
    /\ npkts = 0
    /\ InitRt

Init ==
    /\ flow_ids = <<DrawnFlowId>>
    /\ claimed = {}
    /\ flast = NoFlowLast
    /\ rtp_flow_id = [m \in Muxers |-> IF m = Self THEN DrawnFlowId ELSE -1]
    /\ alive = {Self}
    /\ rtcp_flow_id = [m \in Muxers |-> -1]
    /\ InitMuxFields

PushResults == {"OK", "QUIC_STREAM_CLOSED", "QUIC_BLOCKED", "ERROR"}
\* "refused" stands for both returns of NULL (lines 803-809 and 816-842)
LinkResults == {"ok", "refused"}

RtpChain ==
    \E key \in Keys, buf_len \in BufLens, marker \in BOOLEAN,
       delta \in BOOLEAN, link \in LinkResults, res \in PushResults,
       bn \in BOOLEAN :
        /\ (res # "QUIC_BLOCKED" => ~bn)
        /\ gst_rtp_quic_mux_rtp_chain(key, buf_len, marker, delta, link, res, bn)

RtcpChain ==
    \E sink \in RtcpSinks, buf_len \in BufLens, link \in LinkResults,
       res \in PushResults \ {"QUIC_STREAM_CLOSED"} :
        gst_rtp_quic_mux_rtcp_chain(sink, buf_len, link, res)

Unlinked == \E p \in 1..Len(pads) : rtp_quic_mux_pad_unlinked_callback(p)

SetStreamBoundary ==
    \E v \in {"FRAME", "GOP", "SINGLE"} : set_property_stream_boundary(v)
SetStreamPacking == \E v \in 1..MaxRatio : set_property_stream_packing(v)
SetUseDatagram == \E v \in BOOLEAN : set_property_use_datagram(v)
SetUseUniStreamHdr == \E v \in BOOLEAN : set_property_use_uni_stream_hdr(v)

Next ==
    \/ RtpChain
    \/ RtcpChain
    \/ Unlinked
    \/ SetStreamBoundary
    \/ SetStreamPacking
    \/ SetUseDatagram
    \/ SetUseUniStreamHdr

Spec == Init /\ [][Next]_vars


(***************************************************************************)
(* SpecRT: one stream of the muxer, cut into chunks, given to a demuxer    *)
(***************************************************************************)
\* Lines 1060-1071 of gst_rtp_quic_mux_rtp_chain as seen on the stream: the
\* bytes pushed for buffer buf when stream_offset bytes were pushed before.
mux_frame(stream_offset, buf) ==
    LET hdr == rtp_stream_header(stream_offset)
    IN  payload_header(Len(buf), hdr.type, hdr.flow, TRUE) \o buf

\* gst_rtp_quic_mux_rtp_chain for a buffer of the stream's (SSRC, payload
\* type), the stream staying open.
rtp_chain_on_stream(buf) ==
    /\ demux_rv = "OK"
    /\ Len(sent) < MaxRtPkts
    /\ sent' = Append(sent, buf)
    /\ wire' = wire \o mux_frame(Len(wire), buf)
    /\ UNCHANGED <<delivered, demux_rtp_flow_id, demux_rtcp_flow_id,
                   quic_streams, out, parsed, demux_rv>>
    /\ UNCHANGED <<flowVars, cfgVars, muxVars, aborted, last, routeVars,
                   streamVars, pendVars, thrVars>>

\* gst_rtp_quic_demux_set_property, case PROP_RTP_FLOW_ID: the two flow ids
\* after the write.
demux_set_rtp_flow_id(rtcp, value) ==
    [rtp |-> value,
     rtcp |-> IF value # -1 /\ rtcp = -1 THEN value + 1 ELSE rtcp]

\* Variant of uni_stream_type_matches: every stream type is taken.
uni_stream_type_always_matches(type) == TRUE

\* Lines 975 and 1172: the stream type read is the one configured.
uni_stream_type_matches(type) == type = demux_uni_stream_type

\* The varint read first when match_uni_stream_type is set (lines 970-973 and
\* 1167-1168), nothing otherwise.
read_uni_stream_type(data) ==
    IF demux_match_uni_stream_type THEN get_varint(data, 0)
    ELSE [short |-> FALSE, len |-> 0, value |-> -1]

\* The case of a stream that does not start with the configured type while
\* match_uni_stream_type is set, told from the bytes alone.
stream_type_differs(data) ==
    /\ demux_match_uni_stream_type
    /\ data # <<>>
    /\ get_varint(data, 0).value # demux_uni_stream_type

\* The stream type just read is refused.
uni_stream_type_refused(t) ==
    demux_match_uni_stream_type /\ ~uni_stream_type_matches(t.value)

\* gst_rtp_quic_demux_query, QUICLIB_STREAM_OPEN for a unidirectional stream
\* whose peek buffer holds what the muxer has written on the stream; the pad
\* of the stream links.  The transport announces a stream once.
gst_rtp_quic_demux_query ==
    /\ demux_rv = "OK"
    /\ ~stream_announced
    /\ RtStream \notin DOMAIN quic_streams
    /\ wire # <<>>
    /\ stream_announced' = TRUE
    /\ type_rejected' = (type_rejected \/ stream_type_differs(wire))
    /\ LET t == read_uni_stream_type(wire)
           flow_id == get_varint(wire, t.len).value
           ids == IF demux_rtp_flow_id = -1
                  THEN demux_set_rtp_flow_id(demux_rtcp_flow_id, flow_id)
                  ELSE [rtp |-> demux_rtp_flow_id, rtcp |-> demux_rtcp_flow_id]
           accepted == flow_id = ids.rtp \/ flow_id = ids.rtcp
       IN  IF uni_stream_type_refused(t)
           THEN /\ slast' = [NoStreamLast EXCEPT !.op = "query",
                                !.first = TRUE,
                                !.mismatch = stream_type_differs(wire),
                                !.rv = "FALSE"]
                /\ UNCHANGED <<demux_rtp_flow_id, demux_rtcp_flow_id,
                               quic_streams>>
           ELSE /\ demux_rtp_flow_id' = ids.rtp
                /\ demux_rtcp_flow_id' = ids.rtcp
                /\ IF accepted
                   THEN quic_streams' = hash_insert(quic_streams, RtStream,
                            [buf |-> NullBuf, expected_payloadlen |-> 0])
                   ELSE UNCHANGED quic_streams
                /\ slast' = [NoStreamLast EXCEPT !.op = "query",
                                !.first = TRUE,
                                !.mismatch = stream_type_differs(wire),
                                !.rv = IF accepted THEN "TRUE" ELSE "FALSE"]
    /\ UNCHANGED <<sent, wire, delivered, out, parsed, demux_rv>>
    /\ UNCHANGED <<demux_uni_stream_type, demux_match_uni_stream_type,
                   stream_fin>>
    /\ UNCHANGED <<flowVars, cfgVars, muxVars, aborted, last, routeVars,
                   pendVars, thrVars>>

\* Lines 956-1023 of gst_rtp_quic_demux_chain: the header read from the chunk
\* that starts a frame.  A varint that does not end within the chunk is read
\* beyond the mapped memory: what follows is then the crash of the copy of a
\* region that starts behind the end of the buffer or, for the flow id, a
\* mismatch.
parse_frame_start(chunk, offset) ==
    LET t == IF offset = 0 THEN read_uni_stream_type(chunk)
             ELSE [short |-> FALSE, len |-> 0, value |-> -1]
        f == IF offset = 0 THEN get_varint(chunk, t.len)
             ELSE [short |-> FALSE, len |-> 0, value |-> -1]
        l == get_varint(chunk, t.len + f.len)
    IN  [type_refused |-> offset = 0 /\ uni_stream_type_refused(t),
         flow_short |-> f.short,
         short |-> f.short \/ l.short,
         flow |-> f.value,
         expected_payloadlen |-> l.value,
         varint_len |-> t.len + f.len + l.len]

\* Lines 1035-1046: whether the buffer in progress is pushed (the chunk is
\* not the final one).
frame_complete(size, expected_payloadlen) == ~(size < expected_payloadlen)

\* Lines 948-954 and 1105-1107: whether the chunk takes the stream out of
\* quic_streams.  For the empty final chunk the removal is commented out.
final_chunk_closes(size, final) == final /\ size # 0

\* gst_rtp_quic_demux_chain for a chunk of n bytes of the stream, with or
\* without the final flag; the pad of the stream is linked and takes what is
\* pushed.  After a return other than GST_FLOW_OK the transport gives the
\* demuxer nothing more.
gst_rtp_quic_demux_chain(n, final, rv_short) ==
    /\ demux_rv = "OK"
    /\ ~stream_fin
    /\ n \in 0..(Len(wire) - delivered)
    /\ n = 0 => final
    /\ delivered' = delivered + n
    /\ stream_fin' = final
    /\ type_rejected' =
          (type_rejected
           \/ (delivered = 0 /\ RtStream \in DOMAIN quic_streams
               /\ stream_type_differs(
                      SubSeq(wire, delivered + 1, delivered + n))))
    /\ LET differs == /\ delivered = 0
                      /\ RtStream \in DOMAIN quic_streams
                      /\ stream_type_differs(
                             SubSeq(wire, delivered + 1, delivered + n))
           mark(emitted, rv) ==
               [op |-> "chunk", size |-> n, final |-> final,
                first |-> delivered = 0, mismatch |-> differs,
                emitted |-> emitted, rv |-> rv]
           closed == IF final_chunk_closes(n, final)
                     THEN hash_remove(quic_streams, RtStream)
                     ELSE quic_streams
       IN
       IF RtStream \notin DOMAIN quic_streams
       THEN \* line 940: no stream object for the stream id
            /\ demux_rv' = "NOT_LINKED"
            /\ slast' = mark(FALSE, "NOT_LINKED")
            /\ UNCHANGED <<demux_rtp_flow_id, demux_rtcp_flow_id,
                           quic_streams, out, parsed>>
       ELSE IF n = 0
       THEN \* lines 948-954
            /\ demux_rv' = "OK"
            /\ quic_streams' = closed
            /\ slast' = mark(FALSE, "OK")
            /\ UNCHANGED <<demux_rtp_flow_id, demux_rtcp_flow_id, out, parsed>>
       ELSE
       LET chunk == SubSeq(wire, delivered + 1, delivered + n)
           stream == quic_streams[RtStream]
           h == parse_frame_start(chunk, delivered)
           ids == IF delivered = 0 /\ demux_rtp_flow_id = -1
                  THEN demux_set_rtp_flow_id(demux_rtcp_flow_id, h.flow)
                  ELSE [rtp |-> demux_rtp_flow_id, rtcp |-> demux_rtcp_flow_id]
       IN  IF stream.buf.null /\ h.type_refused
           THEN /\ demux_rv' = "ERROR"
                /\ slast' = mark(FALSE, "ERROR")
                /\ UNCHANGED <<demux_rtp_flow_id, demux_rtcp_flow_id,
                               quic_streams, out, parsed>>
           ELSE IF stream.buf.null /\ h.short
           THEN /\ demux_rv' = IF h.flow_short THEN rv_short ELSE "crash"
                /\ slast' = mark(FALSE, demux_rv')
                /\ UNCHANGED <<demux_rtp_flow_id, demux_rtcp_flow_id,
                               quic_streams, out, parsed>>
           ELSE IF stream.buf.null /\ delivered = 0
                   /\ h.flow # ids.rtp /\ h.flow # ids.rtcp
           THEN /\ demux_rv' = "ERROR"
                /\ demux_rtp_flow_id' = ids.rtp
                /\ demux_rtcp_flow_id' = ids.rtcp
                /\ slast' = mark(FALSE, "ERROR")
                /\ UNCHANGED <<quic_streams, out, parsed>>
           ELSE LET data == IF stream.buf.null
                            THEN SubSeq(chunk, h.varint_len + 1, Len(chunk))
                            ELSE stream.buf.data \o chunk
                    expected == IF stream.buf.null
                                THEN h.expected_payloadlen
                                ELSE stream.expected_payloadlen
                    pushed == frame_complete(Len(data), expected) \/ final
                IN  /\ demux_rtp_flow_id' =
                           IF stream.buf.null THEN ids.rtp
                           ELSE demux_rtp_flow_id
                    /\ demux_rtcp_flow_id' =
                           IF stream.buf.null THEN ids.rtcp
                           ELSE demux_rtcp_flow_id
                    /\ parsed' = IF stream.buf.null
                                 THEN Append(parsed,
                                          [flow |-> h.flow,
                                           len |-> h.expected_payloadlen])
                                 ELSE parsed
                    /\ demux_rv' = "OK"
                    /\ slast' = mark(pushed, "OK")
                    /\ IF pushed
                       THEN /\ out' = Append(out, data)
                            /\ quic_streams' =
                                 IF final_chunk_closes(n, final)
                                 THEN closed
                                 ELSE [quic_streams EXCEPT
                                         ![RtStream] = [buf |-> NullBuf,
                                           expected_payloadlen |-> expected]]
                       ELSE /\ UNCHANGED out
                            /\ quic_streams' = [quic_streams EXCEPT
                                   ![RtStream] =
                                     [buf |-> [null |-> FALSE, data |-> data],
                                      expected_payloadlen |-> expected]]
    /\ UNCHANGED <<sent, wire>>
    /\ UNCHANGED <<demux_uni_stream_type, demux_match_uni_stream_type,
                   stream_announced>>
    /\ UNCHANGED <<flowVars, cfgVars, muxVars, aborted, last, routeVars,
                   pendVars, thrVars>>

InitRT ==
    /\ claimed = {}
    /\ flast = NoFlowLast
    /\ \E id \in RtFlowIds :
         /\ flow_ids = <<id>>
         /\ rtp_flow_id = [m \in Muxers |-> IF m = Self THEN id ELSE -1]
    /\ alive = {Self}
    /\ rtcp_flow_id = [m \in Muxers |-> -1]
    /\ InitMuxFields

\* The buffers given to the muxer: every byte of the i-th is i.
RtBuffers == {[j \in 1..n |-> Len(sent) + 1] : n \in 1..MaxPayload}

RtMuxPush == \E buf \in RtBuffers : rtp_chain_on_stream(buf)
RtStreamOpen == gst_rtp_quic_demux_query
\* A chunk of an open stream, without the final flag.
RtChunk ==
    /\ RtStream \in DOMAIN quic_streams
    /\ \E n \in 1..Len(wire), rv_short \in {"ERROR", "crash"} :
           gst_rtp_quic_demux_chain(n, FALSE, rv_short)

NextRT == RtMuxPush \/ RtStreamOpen \/ RtChunk

SpecRT == InitRT /\ [][NextRT]_vars

\* C2: whatever the buffers the muxer pushed on a stream and however the
\* transport cuts the bytes of the stream into chunks, the demuxer reads the
\* flow id and the payload length the muxer wrote and pushes the same
\* buffers, byte for byte.
C2_StreamRoundTrip ==
    /\ demux_rv = "OK"
    /\ Len(out) <= Len(sent)
    /\ \A i \in 1..Len(out) : out[i] = sent[i]
    /\ Len(parsed) <= Len(sent)
    /\ \A i \in 1..Len(parsed) :
         /\ parsed[i].len = Len(sent[i])
         /\ parsed[i].flow = (IF i = 1 THEN rtp_flow_id[Self] ELSE -1)
    /\ (RtStream \in DOMAIN quic_streams /\ delivered = Len(wire))
           => out = sent

(***************************************************************************)
(* Properties of one muxer (Spec)                                          *)
(***************************************************************************)
\* The stream pads the RTP chain function created and linked.
RtpPads == {p \in 1..Len(pads) : pads[p].kind = "rtp" /\ pads[p].state # "failed"}

\* The last handler was the RTP chain function and it pushed on a stream pad.
RtpPushed == last.op = "rtp" /\ last.pushed \in 1..Len(pads)

\* C3: in FRAME mode with ratio N, a stream is closed after a buffer was
\* emitted on it exactly when that buffer has MARKER and is the N-th MARKER
\* buffer of the stream; a buffer without MARKER never closes the stream.
C3_FrameClosesAfterNMarkers ==
    (RtpPushed /\ stream_boundary = "FRAME" /\ last.res = "OK") =>
        (pads[last.pushed].state = "closed"
            <=> (last.marker
                 /\ pads[last.pushed].units = stream_packing_ratio))

\* C4: in GOP mode with ratio N, no stream carries more than N GOPs.
C4_GopStreamCarriesAtMostN ==
    stream_boundary = "GOP" =>
        \A p \in RtpPads : pads[p].units <= stream_packing_ratio

\* C5: when the push returns GST_FLOW_QUIC_STREAM_CLOSED, frame_cancelled is
\* set, the stream pad is closed and forgotten, the counter is zero and the
\* chain function returns GST_FLOW_OK.
C5_StreamClosedCancelsFrame ==
    (RtpPushed /\ last.res = "QUIC_STREAM_CLOSED") =>
        /\ ssrcs[last.key].frame_cancelled
        /\ ssrcs[last.key].stream_pad = NullPad
        /\ ssrcs[last.key].counter = 0
        /\ last.pushed \notin DOMAIN src_pads
        /\ pads[last.pushed].state \in {"stopped", "closed"}
        /\ last.rv = "OK"
        /\ ~aborted

C5_Witness ==
    /\ RtpPushed
    /\ last.res = "QUIC_STREAM_CLOSED"
    /\ pads[last.pushed].state = "stopped"
    /\ pads[last.pushed].frames >= 2

C7_FlowIdOncePerStream ==
    (\A p \in 1..Len(pads) : pads[p].state # "failed") =>
        \A p \in 1..Len(pads) :
            pads[p].flow_hdrs = 1 /\ pads[p].first_flow

\* C8: for an open stream, stream_offset is the number of bytes emitted on
\* it, and it is zero exactly when nothing has been emitted on it.
C8_StreamOffsetIsBytesEmitted ==
    \A k \in DOMAIN ssrcs :
        ssrcs[k].stream_pad # NullPad =>
            /\ ssrcs[k].stream_offset = pads[ssrcs[k].stream_pad].bytes
            /\ (ssrcs[k].stream_offset = 0
                    <=> pads[ssrcs[k].stream_pad].frames = 0)

C8_Witness ==
    \E k \in DOMAIN ssrcs :
        /\ ssrcs[k].stream_pad # NullPad
        /\ pads[ssrcs[k].stream_pad].frames >= 2
        /\ add_uni_stream_header

\* C9: in SINGLE_STREAM mode the muxer never closes a stream on its own,
\* and while no stream was closed from outside and no link failed there is
\* at most one stream per (SSRC, payload type).
C9_SingleStreamPerKey ==
    stream_boundary = "SINGLE" =>
        /\ \A p \in 1..Len(pads) : pads[p].state # "closed"
        /\ (\A p \in 1..Len(pads) : pads[p].state = "linked") =>
               \A p, q \in RtpPads : pads[p].owner = pads[q].owner => p = q

C9_Witness ==
    /\ stream_boundary = "SINGLE"
    /\ RtpPushed
    /\ pads[last.pushed].frames = MaxPkts

\* C10: use_datagrams and add_uni_stream_header are never both set; a write
\* that would set both is refused (the process ends in g_error) and leaves
\* both as they were.
C10_DatagramsExcludeUniStreamHdr ==
    /\ ~(use_datagrams /\ add_uni_stream_header)
    /\ (last.op = "use-datagram" /\ last.value /\ add_uni_stream_header)
           => (aborted /\ ~use_datagrams)
    /\ (last.op = "use-uni-stream-hdr" /\ last.value /\ use_datagrams)
           => (aborted /\ ~add_uni_stream_header)

C10_Witness ==
    /\ aborted
    /\ last.op = "use-datagram"
    /\ last.value
    /\ add_uni_stream_header

\* C11: with use_datagrams set, every buffer given to a chain function
\* goes out as exactly one datagram: the varint of the flow id (rtp_flow_id
\* for RTP, rtcp_flow_id for RTCP) and then the buffer, with no length; no
\* stream is opened, and the datagram pad created for the first buffer
\* serves all of them.  Without use_datagrams no datagram is pushed.
C11_DatagramIsFlowIdThenPacket ==
    /\ use_datagrams => (Len(pads) = 0 /\ Len(dgrams) = npkts)
    /\ ~use_datagrams => Len(dgrams) = 0
    /\ \A i \in 1..Len(dgrams) :
          /\ dgrams[i].hdr = set_varint(dgrams[i].flow)
          /\ dgrams[i].size = varint_size(dgrams[i].flow) + dgrams[i].buf_len
          /\ dgrams[i].flow = (IF dgrams[i].kind = "rtp"
                               THEN rtp_flow_id[Self]
                               ELSE rtcp_flow_id[Self])
          /\ dgrams[i].opened_pad <=> (i = 1)

C11_Witness ==
    /\ Len(dgrams) = MaxPkts
    /\ dgrams[1].kind = "rtp"
    /\ dgrams[2].kind = "rtcp"

\* The stream pads the RTCP chain function created and linked.
RtcpStreamPads ==
    {p \in 1..Len(pads) : pads[p].kind = "rtcp" /\ pads[p].state # "failed"}

\* The last handler was the RTCP chain function and it pushed on a stream pad.
RtcpPushed == last.op = "rtcp" /\ last.pushed \in 1..Len(pads)

C14_RtcpReopensAfterUnlink ==
    RtcpPushed =>
        /\ pads[last.pushed].state = "linked"
        /\ (pads[last.pushed].frames = 1 => last.flow = rtcp_flow_id[Self])

(***************************************************************************)
(* SpecFlow                                                                *)
(***************************************************************************)
InitFlow ==
    /\ flow_ids = <<>>
    /\ claimed = {}
    /\ flast = NoFlowLast
    /\ alive = {}
    /\ rtp_flow_id = [m \in Muxers |-> -1]
    /\ rtcp_flow_id = [m \in Muxers |-> -1]
    /\ InitMuxFields

flowOnly == UNCHANGED <<cfgVars, muxVars, aborted, last, rtVars>>

MuxInit == flowOnly /\ \E m \in Muxers : gst_rtp_quic_mux_init(m)
SetRtpFlowId ==
    /\ flowOnly
    /\ \E m \in Muxers, v \in {-1} \cup FlowIds : set_property_rtp_flow_id(m, v)
SetRtcpFlowId ==
    /\ flowOnly
    /\ \E m \in Muxers, v \in {-1} \cup FlowIds : set_property_rtcp_flow_id(m, v)

NextFlow == MuxInit \/ SetRtpFlowId \/ SetRtcpFlowId

SpecFlow == InitFlow /\ [][NextFlow]_vars

\* C1: no flow identifier is held by two muxer instances at once: the
\* rtp_flow_id of every live muxer is registered in the manager, and no two
\* live muxers have the same rtp_flow_id.
C1_FlowIdHeldByOneMuxer ==
    /\ \A m \in alive : _check_flow_id_in_use(flow_ids, rtp_flow_id[m])
    /\ \A m, n \in alive : m # n => rtp_flow_id[m] # rtp_flow_id[n]

(***************************************************************************)
(* SpecRtcpFlow: the RTCP chain function of one muxer while its flow-id    *)
(* properties are written; rtcp-flow-id is only ever written as -1         *)
(***************************************************************************)
RtcpFlowIdUnset == flowOnly /\ set_property_rtcp_flow_id(Self, -1)

NextRtcpFlow ==
    \/ RtcpChain
    \/ SetRtpFlowId
    \/ RtcpFlowIdUnset
    \/ SetUseDatagram

SpecRtcpFlow == Init /\ [][NextRtcpFlow]_vars

\* C15: while rtcp-flow-id was never written with a value other than -1,
\* every RTCP flow id the muxer writes (in a datagram, or in the first buffer
\* of an RTCP stream) is rtp_flow_id + 1, for the rtp_flow_id in force when
\* the buffer is handled.
C15_RtcpFlowIdFollowsRtp ==
    (last.op = "rtcp" /\ last.flow >= 0) => last.flow = last.rtp_flow + 1

(***************************************************************************)
(* gstrtpquicdemux.c: the flow-id properties, the routing to src pads,     *)
(* datagrams and the stream-open query                                     *)
(***************************************************************************)
\* flow identifiers carried by what the demuxer receives: 0..MaxDemuxFlowId
MaxDemuxFlowId == 2
\* src pads the demuxer may have created before a handler runs
MaxDemuxPads == 1

DemuxFlowIds == 0..MaxDemuxFlowId
\* values written to rtp-flow-id and rtcp-flow-id
DemuxFlowIdValues == {-1} \cup (0..(MaxDemuxFlowId - 1))
\* the QUIC stream announced to the demuxer (unidirectional)
DemuxStreamIds == {2}

\* The build is for a little-endian host.
WORDS_BIGENDIAN == FALSE

\* The 32-bit number whose bytes, most significant first, are b.
be32(b) == ((b[1] * 256 + b[2]) * 256 + b[3]) * 256 + b[4]

\* The bytes of a 32-bit number, most significant first.
u32_bytes(v) ==
    <<v \div 16777216, (v \div 65536) % 256, (v \div 256) % 256, v % 256>>

\* ntohl: the bytes are swapped on a little-endian host.
ntohl(v) ==
    IF WORDS_BIGENDIAN THEN v
    ELSE LET b == u32_bytes(v) IN be32(<<b[4], b[3], b[2], b[1]>>)

\* memcpy (&ssrc, p, 4) of four bytes b: the number the host reads.
memcpy_u32(b) ==
    IF WORDS_BIGENDIAN THEN be32(b) ELSE be32(<<b[4], b[3], b[2], b[1]>>)

\* An RTP packet (RFC 3550, 5.1): V/P/X/CC, M and payload type, sequence
\* number, timestamp, SSRC at offset 8.
rtp_packet(m_pt, ssrc) == <<128, m_pt, 0, 7, 0, 0, 0, 3>> \o ssrc

\* An RTCP packet (RFC 3550, 6.4.1): V/P/RC, packet type, length, SSRC of the
\* sender at offset 4, then the report (here the NTP timestamp).
rtcp_packet(pt, ssrc) == <<128, pt, 0, 6>> \o ssrc \o <<0, 0, 0, 5>>

\* RTCP packet types are 192..223 (RFC 5761, 4): the second byte of the packet.
packet_is_rtcp(packet) == packet[2] \in 192..223

\* The SSRC a packet carries: at offset 8 of RTP, at offset 4 of RTCP.
packet_ssrc(packet) ==
    IF packet_is_rtcp(packet) THEN be32(SubSeq(packet, 5, 8))
    ELSE be32(SubSeq(packet, 9, 12))

\* What reaches the demuxer: RTP with payload type 96 and an RTCP sender
\* report (packet type 200), of one SSRC.
DemuxPackets ==
    {rtp_packet(96, <<0, 0, 0, 1>>), rtcp_packet(200, <<0, 0, 0, 1>>)}

\* gst_rtp_quic_demux_set_property, case PROP_RTCP_FLOW_ID: the two flow ids
\* after the write.
demux_set_rtcp_flow_id(rtp, value) ==
    [rtp |-> rtp,
     rtcp |-> IF value = -1 /\ rtp # -1 THEN rtp + 1 ELSE value]

\* Variant of flow_class: the RTCP branch is taken when rtcp_flow_id is unset
\* and flow_id is rtp_flow_id + 1, rtp_flow_id unset included.
flow_class_unset_rtp_plus_one(flow_id, rtp, rtcp, pt) ==
    IF flow_id = rtp /\ rtp # rtcp THEN "rtp"
    ELSE IF flow_id = rtcp \/ (rtcp = -1 /\ flow_id = rtp + 1) THEN "rtcp"
    ELSE IF rtp = rtcp
    THEN (IF (pt % 128) >= 64 /\ (pt % 128) <= 95 THEN "rtcp" ELSE "rtp")
    ELSE "unknown"

\* rtp_quic_demux_get_src_pad, lines 858-879: which lookup is made for a
\* frame of flow_id whose second byte is pt (flow_id is unsigned: it never
\* equals an unset flow id).
flow_class(flow_id, rtp, rtcp, pt) ==
    IF flow_id = rtp /\ rtp # rtcp THEN "rtp"
    ELSE IF flow_id = rtcp \/ (rtcp = -1 /\ rtp # -1 /\ flow_id = rtp + 1)
    THEN "rtcp"
    ELSE IF rtp = rtcp
    THEN (IF (pt % 128) >= 64 /\ (pt % 128) <= 95 THEN "rtcp" ELSE "rtp")
    ELSE "unknown"

\* A src pad as created: name holds the numbers printed into the pad name.
NewDemuxPad(kind, name, ssrc, pt, state) ==
    [kind |-> kind, name |-> name, ssrc |-> ssrc, pt |-> pt, state |-> state]

\* The routing state a handler works on.
route_context == [pads |-> demux_pads, table |-> src_ssrcs, pad |-> NullPad]

\* rtp_quic_demux_get_rtp_src_pad, no request sink pending: the pad of
\* (ssrc, pt & 0x7f), created and linked to the peer when it is not there.
rtp_quic_demux_get_rtp_src_pad(c, rtp, ssrc, pt, link) ==
    LET key == <<ssrc, pt % 128>>
        n == Len(c.pads) + 1
    IN  IF key \in DOMAIN c.table
        THEN [c EXCEPT !.pad = c.table[key]]
        ELSE [pads |-> Append(c.pads,
                  NewDemuxPad("rtp", <<rtp, ssrc, pt % 128>>, ssrc, pt % 128,
                              IF link THEN "linked" ELSE "unlinked")),
              table |-> hash_insert(c.table, key, n),
              pad |-> n]

\* rtp_quic_demux_get_rtcp_src_pad, no request sink pending.  Nothing is ever
\* inserted in src_ssrcs_rtcp, so a pad is created at every call; the element
\* refuses a second pad of the same name and that pad is destroyed
\* (gst_element_add_pad), yet it is returned.
rtp_quic_demux_get_rtcp_src_pad(c, rtcp, ssrc, link) ==
    LET name == <<rtcp, ssrc>>
        taken == \E p \in 1..Len(c.pads) :
                     /\ c.pads[p].kind = "rtcp"
                     /\ c.pads[p].name = name
                     /\ c.pads[p].state \in {"linked", "unlinked"}
    IN  [c EXCEPT
           !.pads = Append(@, NewDemuxPad("rtcp", name, ssrc, 0,
                       IF taken THEN "destroyed"
                       ELSE IF link THEN "linked" ELSE "unlinked")),
           !.pad = Len(c.pads) + 1]

\* rtp_quic_demux_get_src_pad
rtp_quic_demux_get_src_pad(c, rtp, rtcp, flow_id, ssrc, pt, link) ==
    LET class == flow_class(flow_id, rtp, rtcp, pt)
    IN  IF class = "rtp"
        THEN rtp_quic_demux_get_rtp_src_pad(c, rtp, ssrc, pt, link)
        ELSE IF class = "rtcp"
        THEN rtp_quic_demux_get_rtcp_src_pad(c, rtcp, ssrc, link)
        ELSE [c EXCEPT !.pad = NullPad]

\* The process of the demuxer has ended (g_assert, or the use of a pad that
\* was destroyed).
demux_ended == demux_rv \in {"abort", "crash"}

demux_unchanged_mux ==
    UNCHANGED <<flowVars, cfgVars, muxVars, aborted, last, streamVars,
                pendVars, thrVars>>

\* gst_rtp_quic_demux_set_property, case PROP_RTP_FLOW_ID.
demux_set_property_rtp_flow_id(value) ==
    LET ids == demux_set_rtp_flow_id(demux_rtcp_flow_id, value)
    IN  /\ ~demux_ended
        /\ demux_rtp_flow_id' = ids.rtp
        /\ demux_rtcp_flow_id' = ids.rtcp
        /\ dlast' = [NoDemuxLast EXCEPT !.op = "rtp-flow-id", !.flow = value]
        /\ UNCHANGED <<sent, wire, delivered, quic_streams, out, parsed,
                       demux_rv, src_ssrcs, demux_pads, rtcp_explicit>>
        /\ demux_unchanged_mux

\* gst_rtp_quic_demux_set_property, case PROP_RTCP_FLOW_ID.
demux_set_property_rtcp_flow_id(value) ==
    LET ids == demux_set_rtcp_flow_id(demux_rtp_flow_id, value)
    IN  /\ ~demux_ended
        /\ demux_rtcp_flow_id' = ids.rtcp
        /\ rtcp_explicit' = (rtcp_explicit \/ value # -1)
        /\ dlast' = [NoDemuxLast EXCEPT !.op = "rtcp-flow-id", !.flow = value]
        /\ UNCHANGED <<sent, wire, delivered, quic_streams, out, parsed,
                       demux_rv, src_ssrcs, demux_pads, demux_rtp_flow_id>>
        /\ demux_unchanged_mux

\* Lines 1066-1069 of gst_rtp_quic_demux_chain: the SSRC read from a
\* datagram whose flow id takes off bytes.
datagram_ssrc(data, off) == ntohl(be32(SubSeq(data, off + 9, off + 12)))

\* What the push downstream returns.
DemuxPushResults == {"OK", "ERROR"}

\* Lines 1094-1109 of gst_rtp_quic_demux_chain: how the handler can end for a
\* target pad in the given state.  A pad that was destroyed is used after its
\* memory was freed: the assertion fails or the process crashes.
datagram_outcomes(state) ==
    IF state = "linked" THEN DemuxPushResults
    ELSE IF state = "destroyed" THEN {"abort", "crash"}
    ELSE {"abort"}

\* gst_rtp_quic_demux_chain for a buffer with a datagram meta: the datagram
\* holds the varint of flow and then packet.  link tells whether a pad
\* created for it gets linked.
gst_rtp_quic_demux_chain_datagram(flow, packet, link) ==
    LET data == set_varint(flow) \o packet
        v == get_varint(data, 0)
        off == v.len
        flow_id == v.value
        payload_type == data[off + 2]
        ssrc == datagram_ssrc(data, off)
    IN  /\ ~demux_ended
        /\ Len(demux_pads) <= MaxDemuxPads
        /\ \E c \in {rtp_quic_demux_get_src_pad(route_context,
                         demux_rtp_flow_id, demux_rtcp_flow_id, flow_id, ssrc,
                         payload_type, link)} :
            LET target_pad == c.pad
                state == IF target_pad = NullPad THEN "null"
                         ELSE c.pads[target_pad].state
            IN  \E rv \in datagram_outcomes(state) :
                /\ demux_pads' = c.pads
                /\ src_ssrcs' = c.table
                /\ demux_rv' = rv
                /\ dlast' = [NoDemuxLast EXCEPT
                       !.op = "datagram", !.flow = flow_id,
                       !.payload_type = payload_type, !.packet = packet,
                       !.class = flow_class(flow_id, demux_rtp_flow_id,
                                     demux_rtcp_flow_id, payload_type),
                       !.ssrc = ssrc, !.target = target_pad,
                       !.created = Len(c.pads) - Len(demux_pads),
                       !.pushed = IF state = "linked"
                                  THEN SubSeq(data, off + 1, Len(data))
                                  ELSE <<>>,
                       !.rv = rv]
        /\ UNCHANGED <<sent, wire, delivered, quic_streams, out, parsed,
                       demux_rtp_flow_id, demux_rtcp_flow_id, rtcp_explicit>>
        /\ demux_unchanged_mux

\* Lines 1195-1217 of gst_rtp_quic_demux_query: the offset in the frame from
\* which the SSRC is copied, -1 when the stream is refused.
query_ssrc_offset(flow_id, rtp, rtcp, payload_type) ==
    IF flow_id = rtp /\ rtp # rtcp THEN 8
    ELSE IF flow_id = rtcp \/ (rtcp = -1 /\ flow_id = rtp + 1) THEN 4
    ELSE IF rtp = rtcp THEN 4
    ELSE -1

\* Line 1188: whether the query sets rtp-flow-id from the frame.
query_learns_flow_id(rtp) == rtp = -1

\* gst_rtp_quic_demux_query, QUICLIB_STREAM_OPEN for a unidirectional stream
\* whose peek buffer holds the varint of flow, the varint of the length of
\* packet and packet; match_uni_stream_type is not set.
gst_rtp_quic_demux_query_stream_open(stream_id, flow, packet, link) ==
    LET peek == set_varint(flow) \o set_varint(Len(packet)) \o packet
        f == get_varint(peek, 0)
        l == get_varint(peek, f.len)
        hdr_size == f.len + l.len
        flow_id == f.value
        payload_type == peek[hdr_size + 2]
        ids == IF query_learns_flow_id(demux_rtp_flow_id)
               THEN demux_set_rtp_flow_id(demux_rtcp_flow_id, flow_id)
               ELSE [rtp |-> demux_rtp_flow_id, rtcp |-> demux_rtcp_flow_id]
        off == query_ssrc_offset(flow_id, ids.rtp, ids.rtcp, payload_type)
        ssrc == IF off < 0 THEN 0
                ELSE ntohl(memcpy_u32(SubSeq(peek, hdr_size + off + 1,
                                             hdr_size + off + 4)))
        c == rtp_quic_demux_get_src_pad(route_context, ids.rtp, ids.rtcp,
                 flow_id, ssrc, payload_type, link)
        is_linked == c.pad # NullPad /\ c.pads[c.pad].state = "linked"
        mark(class, target, created, rv) ==
            [NoDemuxLast EXCEPT
               !.op = "query", !.stream_id = stream_id, !.flow = flow_id,
               !.payload_type = payload_type, !.packet = packet,
               !.learned = (~(stream_id \in DOMAIN quic_streams)
                            /\ query_learns_flow_id(demux_rtp_flow_id)),
               !.class = class, !.ssrc = ssrc, !.target = target,
               !.created = created, !.rv = rv]
    IN  /\ ~demux_ended
        /\ Len(demux_pads) <= MaxDemuxPads
        /\ IF stream_id \in DOMAIN quic_streams
           THEN \* the stream is already open
                /\ dlast' = mark("none", NullPad, 0, "FALSE")
                /\ UNCHANGED <<demux_rtp_flow_id, demux_rtcp_flow_id,
                               quic_streams, demux_pads, src_ssrcs>>
           ELSE
           /\ demux_rtp_flow_id' = ids.rtp
           /\ demux_rtcp_flow_id' = ids.rtcp
           /\ IF off < 0
              THEN /\ dlast' = mark("unknown", NullPad, 0, "FALSE")
                   /\ UNCHANGED <<quic_streams, demux_pads, src_ssrcs>>
              ELSE
              LET class == flow_class(flow_id, ids.rtp, ids.rtcp, payload_type)
                  created == Len(c.pads) - Len(demux_pads)
              IN  /\ src_ssrcs' = c.table
                  /\ IF is_linked
                     THEN /\ demux_pads' = c.pads
                          /\ quic_streams' = hash_insert(quic_streams,
                                 stream_id,
                                 [buf |-> NullBuf, expected_payloadlen |-> 0,
                                  onward_src_pad |-> c.pad])
                          /\ dlast' = mark(class, c.pad, created, "TRUE")
                     ELSE \* lines 1226-1235: the pad is removed again
                          /\ demux_pads' =
                                 IF c.pad = NullPad THEN c.pads
                                 ELSE [c.pads EXCEPT ![c.pad].state =
                                          IF @ = "destroyed" THEN @
                                          ELSE "removed"]
                          /\ UNCHANGED quic_streams
                          /\ dlast' = mark(class, c.pad, created, "FALSE")
        /\ UNCHANGED <<sent, wire, delivered, out, parsed, demux_rv,
                       rtcp_explicit>>
        /\ demux_unchanged_mux

(***************************************************************************)
(* SpecDemux: one demuxer, its flow-id properties written at any time,     *)
(* datagrams and stream-open queries arriving                              *)
(***************************************************************************)
DemuxSetRtpFlowId ==
    \E v \in DemuxFlowIdValues : demux_set_property_rtp_flow_id(v)
DemuxSetRtcpFlowId ==
    \E v \in DemuxFlowIdValues : demux_set_property_rtcp_flow_id(v)
DemuxDatagram ==
    \E flow \in DemuxFlowIds, packet \in DemuxPackets, link \in BOOLEAN :
        gst_rtp_quic_demux_chain_datagram(flow, packet, link)
DemuxStreamOpen ==
    \E stream_id \in DemuxStreamIds, flow \in DemuxFlowIds,
       packet \in DemuxPackets, link \in BOOLEAN :
        gst_rtp_quic_demux_query_stream_open(stream_id, flow, packet, link)

NextDemux ==
    \/ DemuxSetRtpFlowId
    \/ DemuxSetRtcpFlowId
    \/ DemuxDatagram
    \/ DemuxStreamOpen

SpecDemux == Init /\ [][NextDemux]_vars

\* C12: a datagram whose flow id the demuxer accepts goes to the output of the
\* SSRC and payload type the packet carries (SSRC at offset 8 of RTP, 4 of
\* RTCP), and what is pushed is the datagram after the flow-id varint.
C12_DatagramRoutedByPacketSsrc ==
    (dlast.op = "datagram" /\ dlast.class # "unknown") =>
        /\ dlast.ssrc = packet_ssrc(dlast.packet)
        /\ demux_pads[dlast.target].ssrc = packet_ssrc(dlast.packet)
        /\ dlast.rv \in DemuxPushResults => dlast.pushed = dlast.packet

\* The payload-type bytes of DemuxPackets.
DemuxPayloadTypes == {packet[2] : packet \in DemuxPackets}

\* C16: while rtcp-flow-id was never written with an explicit value, the flow
\* id the demuxer routes as RTCP is rtp_flow_id + 1 for the rtp_flow_id it has
\* now, whatever rtp-flow-id writes came before.
C16_DemuxRtcpFlowIdFollowsRtp ==
    (~rtcp_explicit /\ demux_rtp_flow_id # -1) =>
        \A flow_id \in 0..(MaxDemuxFlowId + 1), pt \in DemuxPayloadTypes :
            flow_class(flow_id, demux_rtp_flow_id, demux_rtcp_flow_id, pt)
                = "rtcp" <=> flow_id = demux_rtp_flow_id + 1

\* C17: a demuxer whose rtp_flow_id is -1 learns it from the first frame of a
\* stream: the flow id of the frame when the payload-type byte is below 128,
\* that flow id minus 1 when the byte is 128 or more, and then the frame is
\* routed as RTCP.
C17_AutoLearnByPayloadType ==
    (dlast.op = "query" /\ dlast.learned) =>
        /\ dlast.payload_type < 128 => demux_rtp_flow_id = dlast.flow
        /\ (dlast.payload_type >= 128 /\ dlast.flow >= 1) =>
              /\ demux_rtp_flow_id = dlast.flow - 1
              /\ demux_rtcp_flow_id = dlast.flow
              /\ dlast.class = "rtcp"

\* The flow-id configurations and frames over which the classification is
\* compared.
ClassInputs ==
    {<<f, r, c, pt>> : f \in 0..(MaxDemuxFlowId + 1),
                       r \in -1..MaxDemuxFlowId, c \in -1..MaxDemuxFlowId,
                       pt \in {0, 63, 64, 72, 95, 96, 127, 192, 200, 223, 224}}

\* The classification the last routed frame must have had, by the rule with
\* and without the condition that rtp_flow_id is set in the "+ 1" clause.
class_rule(flow_id, rtp, rtcp, pt, needs_rtp) ==
    IF flow_id = rtp /\ rtp # rtcp THEN "rtp"
    ELSE IF flow_id = rtcp
            \/ (rtcp = -1 /\ (needs_rtp => rtp # -1) /\ flow_id = rtp + 1)
    THEN "rtcp"
    ELSE IF rtp = rtcp
    THEN (IF (pt % 128) \in 64..95 THEN "rtcp" ELSE "rtp")
    ELSE "unknown"

C19_UnknownFlowStreamRejected ==
    (/\ dlast.op = "query"
     /\ dlast.class # "none"
     /\ ~dlast.learned
     /\ dlast.flow # demux_rtp_flow_id
     /\ dlast.flow # demux_rtcp_flow_id) =>
        /\ dlast.rv = "FALSE"
        /\ dlast.stream_id \notin DOMAIN quic_streams
        /\ dlast.created = 0

\* C20: a datagram whose flow id is neither the RTP nor the RTCP flow is
\* dropped: nothing is pushed, no src pad is created, and the chain function
\* returns instead of ending the process.
C20_UnknownFlowDatagramDropped ==
    (dlast.op = "datagram" /\ dlast.class = "unknown") =>
        /\ dlast.pushed = <<>>
        /\ dlast.created = 0
        /\ ~demux_ended

(***************************************************************************)
(* SpecStream: one stream of the muxer, with or without the stream type    *)
(* before the flow id, given to a demuxer whose stream-type properties are *)
(* written at any time; the last chunk may carry the final flag            *)
(***************************************************************************)
\* values written to the demuxer's uni-stream-type: the muxer's and another
DemuxStreamTypes == {0, 1}

\* gst_rtp_quic_demux_set_property, case PROP_UNI_STREAM_TYPE.
demux_set_property_uni_stream_type(value) ==
    /\ demux_rv = "OK"
    /\ demux_uni_stream_type' = value
    /\ UNCHANGED <<demux_match_uni_stream_type, stream_announced, stream_fin,
                   type_rejected, slast>>
    /\ UNCHANGED <<sent, wire, delivered, demux_rtp_flow_id,
                   demux_rtcp_flow_id, quic_streams, out, parsed, demux_rv>>
    /\ UNCHANGED <<flowVars, cfgVars, muxVars, aborted, last, routeVars,
                   pendVars, thrVars>>

\* gst_rtp_quic_demux_set_property, case PROP_USE_UNI_STREAM_HEADER.
demux_set_property_use_uni_stream_hdr(value) ==
    /\ demux_rv = "OK"
    /\ demux_match_uni_stream_type' = value
    /\ UNCHANGED <<demux_uni_stream_type, stream_announced, stream_fin,
                   type_rejected, slast>>
    /\ UNCHANGED <<sent, wire, delivered, demux_rtp_flow_id,
                   demux_rtcp_flow_id, quic_streams, out, parsed, demux_rv>>
    /\ UNCHANGED <<flowVars, cfgVars, muxVars, aborted, last, routeVars,
                   pendVars, thrVars>>

\* The muxer's use-uni-stream-hdr is written before it frames a buffer.
StreamMuxSetUseUniStreamHdr == sent = <<>> /\ SetUseUniStreamHdr
DemuxSetUniStreamType ==
    \E v \in DemuxStreamTypes : demux_set_property_uni_stream_type(v)
DemuxSetUseUniStreamHdr ==
    \E v \in BOOLEAN : demux_set_property_use_uni_stream_hdr(v)
StreamChunk ==
    \E n \in 0..Len(wire), final \in BOOLEAN, rv_short \in {"ERROR", "crash"} :
        gst_rtp_quic_demux_chain(n, final, rv_short)

NextStream ==
    \/ StreamMuxSetUseUniStreamHdr
    \/ RtMuxPush
    \/ DemuxSetUniStreamType
    \/ DemuxSetUseUniStreamHdr
    \/ RtStreamOpen
    \/ StreamChunk

SpecStream == InitRT /\ [][NextStream]_vars

C22_ReassemblyEmitsExactLength ==
    /\ (RtStream \in DOMAIN quic_streams /\ ~quic_streams[RtStream].buf.null)
          => Len(quic_streams[RtStream].buf.data)
                 < quic_streams[RtStream].expected_payloadlen
    /\ (slast.op = "chunk" /\ slast.emitted /\ ~slast.final) =>
          /\ Len(out[Len(out)]) = quic_streams[RtStream].expected_payloadlen
          /\ quic_streams[RtStream].buf.null

\* C23: once a chunk with the final flag was processed for the stream, empty
\* or not, quic_streams has no entry for the stream id.
C23_FinalChunkRemovesStream ==
    (slast.op = "chunk" /\ slast.final /\ slast.rv = "OK") =>
        RtStream \notin DOMAIN quic_streams

(***************************************************************************)
(* SpecAlloc: the functions of the flow-id manager called by any caller    *)
(***************************************************************************)
\* What is kept of a call of the manager's function op with flow_id.
alloc_mark(op, flow_id, rv) ==
    [NoFlowLast EXCEPT !.op = op, !.value = flow_id, !.rv = rv,
        !.in_use = _check_flow_id_in_use(flow_ids, flow_id),
        !.held = flow_id \in claimed, !.flow_ids = flow_ids]

\* gst_roq_flow_id_manager_new_flow_id
gst_roq_flow_id_manager_new_flow_id(flow_id) ==
    LET rv == new_flow_id_rv(flow_ids, flow_id)
    IN  /\ flow_ids' = new_flow_id_list(flow_ids, flow_id)
        /\ claimed' = IF rv THEN claimed \cup {flow_id} ELSE claimed
        /\ flast' = alloc_mark("new_flow_id", flow_id, rv)

\* gst_roq_flow_id_manager_flow_id_in_use
gst_roq_flow_id_manager_flow_id_in_use(flow_id) ==
    /\ flast' = alloc_mark("flow_id_in_use", flow_id,
                    _check_flow_id_in_use(flow_ids, flow_id))
    /\ UNCHANGED <<flow_ids, claimed>>

\* gst_roq_flow_id_manager_retire_flow_id
gst_roq_flow_id_manager_retire_flow_id(flow_id) ==
    /\ flow_ids' = retire_flow_id(flow_ids, flow_id)
    /\ claimed' = claimed \ {flow_id}
    /\ flast' = alloc_mark("retire_flow_id", flow_id, FALSE)

allocOnly == flowOnly /\ UNCHANGED <<alive, rtp_flow_id, rtcp_flow_id>>

NewFlowId ==
    allocOnly /\ \E x \in FlowIds : gst_roq_flow_id_manager_new_flow_id(x)
FlowIdInUse ==
    allocOnly /\ \E x \in FlowIds : gst_roq_flow_id_manager_flow_id_in_use(x)
RetireFlowId ==
    allocOnly /\ \E x \in FlowIds : gst_roq_flow_id_manager_retire_flow_id(x)

NextAlloc == NewFlowId \/ FlowIdInUse \/ RetireFlowId

SpecAlloc == InitFlow /\ [][NextAlloc]_vars

\* C24: from a successful new_flow_id (x) until retire_flow_id (x), every
\* new_flow_id (x) returns FALSE and leaves the list as it is, and
\* flow_id_in_use (x) returns TRUE; after retire_flow_id (x), flow_id_in_use
\* (x) is FALSE and new_flow_id (x) succeeds again.
C24_ClaimExcludesUntilRelease ==
    /\ \A x \in FlowIds : _check_flow_id_in_use(flow_ids, x) <=> x \in claimed
    /\ flast.op = "new_flow_id" =>
          /\ flast.rv <=> ~flast.held
          /\ flast.held => flow_ids = flast.flow_ids
    /\ flast.op = "flow_id_in_use" => (flast.rv <=> flast.held)

\* An id that was claimed and not released was claimed again, in vain, while
\* another id is held too.
C24_Witness ==
    /\ flast.op = "new_flow_id" /\ flast.held /\ ~flast.rv
    /\ Len(flow_ids) >= 2

\* C25: writing to a muxer's rtp-flow-id or rtcp-flow-id a value that is in
\* the manager's list changes nothing: the muxer keeps its rtp_flow_id and
\* rtcp_flow_id and the list is as it was.
C25_TakenFlowIdWriteHasNoEffect ==
    (/\ flast.op \in {"rtp-flow-id", "rtcp-flow-id"}
     /\ flast.value # -1
     /\ flast.in_use) =>
        /\ flow_ids = flast.flow_ids
        /\ rtp_flow_id[flast.m] = flast.rtp
        /\ rtcp_flow_id[flast.m] = flast.rtcp

\* A muxer was told to take the rtp flow id another live muxer holds.
C25_Witness ==
    /\ flast.op = "rtp-flow-id" /\ flast.in_use
    /\ \E m \in alive \ {flast.m} : rtp_flow_id[m] = flast.value

(***************************************************************************)
(* SpecFlowLife: muxers constructed, configured and destroyed              *)
(***************************************************************************)
MuxFinalize == flowOnly /\ \E m \in Muxers : gst_rtp_quic_mux_finalize(m)

NextFlowLife == MuxInit \/ SetRtpFlowId \/ SetRtcpFlowId \/ MuxFinalize

SpecFlowLife == InitFlow /\ [][NextFlowLife]_vars

\* C26: when a muxer has been finalized, the flow ids it had claimed are no
\* longer in the manager's list: its rtp_flow_id, and its rtcp_flow_id when it
\* had one, can be claimed by a later muxer.
C26_FinalizeReleasesFlowIds ==
    flast.op = "finalize" =>
        /\ ~_check_flow_id_in_use(flow_ids, flast.rtp)
        /\ flast.rtcp # -1 => ~_check_flow_id_in_use(flow_ids, flast.rtcp)

(***************************************************************************)
(* SpecEos: the demuxer of SpecDemux, and EOS sent to the element          *)
(***************************************************************************)
\* _propagate_eos_ssrc / _propagate_eos_pt run over src_ssrcs: the pads that
\* gst_pad_push_event is called on.
eos_receivers(table, pad_list) == {table[key] : key \in DOMAIN table}

\* How the EOS handler can end.  The handler holds two references on the
\* event and every push gives one away, so with two or more receivers the
\* event is released once too often; a receiver that was removed from the
\* element is used after its release.
eos_outcomes(table, pad_list) ==
    LET receivers == eos_receivers(table, pad_list)
    IN  IF \/ Cardinality(receivers) >= 2
           \/ \E p \in receivers :
                  ~(pad_list[p].state \in {"linked", "unlinked"})
        THEN {"TRUE", "crash"}
        ELSE {"TRUE"}

\* gst_rtp_quic_demux_element_event, case GST_EVENT_EOS.
gst_rtp_quic_demux_element_event ==
    /\ ~demux_ended
    /\ \E rv \in eos_outcomes(src_ssrcs, demux_pads) :
        /\ demux_rv' = IF rv = "crash" THEN "crash" ELSE demux_rv
        /\ dlast' = [NoDemuxLast EXCEPT
               !.op = "eos", !.rv = rv,
               !.eos = IF rv = "crash" THEN {}
                       ELSE eos_receivers(src_ssrcs, demux_pads)]
    /\ UNCHANGED <<sent, wire, delivered, quic_streams, out, parsed,
                   demux_rtp_flow_id, demux_rtcp_flow_id, rtcp_explicit,
                   src_ssrcs, demux_pads>>
    /\ demux_unchanged_mux

DemuxEos == gst_rtp_quic_demux_element_event

NextEos ==
    \/ DemuxSetRtpFlowId
    \/ DemuxSetRtcpFlowId
    \/ DemuxDatagram
    \/ DemuxStreamOpen
    \/ DemuxEos

SpecEos == Init /\ [][NextEos]_vars

\* C27: when the demuxer has handled EOS, every src pad it has linked to an
\* output sink so far, of RTP and of RTCP, is among the pads the EOS was pushed
\* on.
C27_EosReachesEveryBoundOutput ==
    dlast.op = "eos" =>
        \A p \in 1..Len(demux_pads) :
            demux_pads[p].state = "linked" => p \in dlast.eos

\* C28: whatever the push on the transport returns, the RTP chain returns to
\* its caller and the process goes on: GST_FLOW_QUIC_STREAM_CLOSED is returned
\* as GST_FLOW_OK and every other result, blocked and fatal errors included,
\* is returned as it is.
C28_RtpChainReturnsEveryEmitResult ==
    (last.op = "rtp" /\ last.res \in PushResults) =>
        /\ ~aborted
        /\ last.rv = IF last.res = "QUIC_STREAM_CLOSED" THEN "OK"
                     ELSE last.res

\* C29: a lookup for a key whose output exists and was not released returns
\* that output and creates none, in the RTP table (SSRC and payload type) and
\* in the RTCP table (SSRC) alike.
C29_LookupIsIdempotent ==
    (dlast.op \in {"datagram", "query"} /\ dlast.class \in {"rtp", "rtcp"}) =>
        \A p \in 1..(Len(demux_pads) - dlast.created) :
            ( /\ demux_pads[p].kind = dlast.class
              /\ demux_pads[p].ssrc = dlast.ssrc
              /\ dlast.class = "rtp" =>
                     demux_pads[p].pt = dlast.payload_type % 128
              /\ demux_pads[p].state \in {"linked", "unlinked"} )
            => (dlast.created = 0 /\ dlast.target = p)

(***************************************************************************)
(* SpecPending: src pads requested from the demuxer, linked by the         *)
(* application, and matched by the lookups                                 *)
(***************************************************************************)
\* Requests for a src pad made to one demuxer.
MaxPending == 3

\* The media types of the caps the lookups ask for (lines 757-760 and 813).
LookupCaps == {"application/x-rtp", "application/x-rtcp"}

\* What gst_pad_get_allowed_caps can give for a linked pad: the media types
\* the pad and its peer both take.
AllowedCaps == (SUBSET LookupCaps) \ {{}}

\* The pad made by gst_pad_new_from_template, not linked yet.
NewPendingPad(id) == [id |-> id, linked |-> FALSE, caps |-> {}]

gst_caps_can_intersect(sink_caps, caps) == caps \in sink_caps

\* The loop of rtp_quic_demux_match_pending_sink from the i-th link on: the
\* position of the pad it stops at, 0 when it reaches the end of the list.
RECURSIVE match_scan(_, _, _)
match_scan(pad_list, caps, i) ==
    IF i > Len(pad_list) THEN 0
    ELSE IF ~pad_list[i].linked THEN match_scan(pad_list, caps, i + 1)
    ELSE IF gst_caps_can_intersect(pad_list[i].caps, caps) THEN i
    ELSE match_scan(pad_list, caps, i + 1)

\* g_list_remove: the list without its first link that holds data.
g_list_remove(pad_list, data) ==
    IF \E i \in 1..Len(pad_list) : pad_list[i].id = data
    THEN LET i == CHOOSE i \in 1..Len(pad_list) :
                      /\ pad_list[i].id = data
                      /\ \A j \in 1..(i - 1) : pad_list[j].id # data
         IN  SubSeq(pad_list, 1, i - 1) \o SubSeq(pad_list, i + 1, Len(pad_list))
    ELSE pad_list

\* How rtp_quic_demux_match_pending_sink can end when the loop stopped at
\* position i.  On a match sink_caps is released at line 698 and again at
\* line 718, and the list link freed by g_list_remove is read by the loop's
\* g_list_next: the function returns, or the process crashes.
match_outcomes(i) == IF i = 0 THEN {"returned"} ELSE {"returned", "crash"}

pendOnly ==
    UNCHANGED <<flowVars, cfgVars, muxVars, aborted, last, sent, wire,
                delivered, demux_rtp_flow_id, demux_rtcp_flow_id,
                quic_streams, out, parsed, routeVars, streamVars, thrVars>>

\* gst_rtp_quic_demux_request_new_pad: a pad of a src template is put at the
\* end of pending_req_sinks, a pad of a sink template is not.
gst_rtp_quic_demux_request_new_pad(direction) ==
    /\ ~demux_ended
    /\ pend_n < MaxPending
    /\ IF direction = "SINK"
       THEN UNCHANGED <<pending_req_sinks, pend_n>>
       ELSE /\ pend_n' = pend_n + 1
            /\ pending_req_sinks' =
                   Append(pending_req_sinks, NewPendingPad(pend_n + 1))
    /\ plast' = [NoPendingLast EXCEPT !.op = "request",
                    !.before = pending_req_sinks]
    /\ UNCHANGED demux_rv
    /\ pendOnly

\* The application links the i-th pending pad; rtp_quic_demux_pad_linked runs
\* and leaves the list alone.
rtp_quic_demux_pad_linked(i, allowed) ==
    /\ ~demux_ended
    /\ ~pending_req_sinks[i].linked
    /\ pending_req_sinks' = [pending_req_sinks EXCEPT
                                ![i].linked = TRUE, ![i].caps = allowed]
    /\ plast' = [NoPendingLast EXCEPT !.op = "linked",
                    !.before = pending_req_sinks]
    /\ UNCHANGED <<pend_n, demux_rv>>
    /\ pendOnly

\* rtp_quic_demux_match_pending_sink
rtp_quic_demux_match_pending_sink(caps) ==
    LET i == match_scan(pending_req_sinks, caps, 1)
    IN  /\ ~demux_ended
        /\ \E ended \in match_outcomes(i) :
            /\ pending_req_sinks' =
                   IF i = 0 THEN pending_req_sinks
                   ELSE g_list_remove(pending_req_sinks,
                                      pending_req_sinks[i].id)
            /\ demux_rv' = IF ended = "crash" THEN "crash" ELSE demux_rv
            /\ plast' = [op |-> "match", caps |-> caps,
                         before |-> pending_req_sinks,
                         rv |-> IF i = 0 \/ ended = "crash" THEN 0
                                ELSE pending_req_sinks[i].id,
                         ended |-> ended]
        /\ UNCHANGED pend_n
        /\ pendOnly

RequestNewPad ==
    \E direction \in {"SINK", "SRC"} :
        gst_rtp_quic_demux_request_new_pad(direction)
PendingPadLinked ==
    \E i \in 1..Len(pending_req_sinks), allowed \in AllowedCaps :
        rtp_quic_demux_pad_linked(i, allowed)
MatchPendingSink ==
    \E caps \in LookupCaps : rtp_quic_demux_match_pending_sink(caps)

NextPending == RequestNewPad \/ PendingPadLinked \/ MatchPendingSink

SpecPending == Init /\ [][NextPending]_vars

\* C30: a match returns the earliest pending pad that is linked and whose
\* allowed caps intersect the caps asked for, and takes that pad and no other
\* out of the list, the rest keeping its order; when no pad qualifies it
\* returns none and the list is as before.
C30_MatchTakesEarliestQualifying ==
    plast.op = "match" =>
        LET before == plast.before
            q == {i \in 1..Len(before) :
                      before[i].linked /\ plast.caps \in before[i].caps}
        IN  /\ plast.ended = "returned"
            /\ IF q = {}
               THEN plast.rv = 0 /\ pending_req_sinks = before
               ELSE LET i == CHOOSE i \in q : \A j \in q : i <= j
                    IN  /\ plast.rv = before[i].id
                        /\ pending_req_sinks =
                               SubSeq(before, 1, i - 1)
                                   \o SubSeq(before, i + 1, Len(before))

\* C39: a write to use-datagram or to use-uni-stream-hdr is refused exactly
\* when it would leave both options set; a write of FALSE is always taken.
C39_OptionWriteRefusedOnlyIfBothSet ==
    /\ last.op = "use-datagram" =>
           (aborted <=> (last.value /\ add_uni_stream_header))
    /\ last.op = "use-uni-stream-hdr" =>
           (aborted <=> (last.value /\ use_datagrams))

\* The flow id a muxer writes in RTCP headers.
rtcp_flow_id_written(m) ==
    IF rtcp_flow_id[m] = -1 THEN rtp_flow_id[m] + 1 ELSE rtcp_flow_id[m]

\* C40: the flow id a live muxer writes in RTCP headers is in the manager's
\* list, and it is not the rtp_flow_id or the RTCP flow id of another live
\* muxer.
C40_RtcpFlowIdIsRegistered ==
    \A m \in alive :
        /\ _check_flow_id_in_use(flow_ids, rtcp_flow_id_written(m))
        /\ \A n \in alive \ {m} :
               /\ rtp_flow_id[n] # rtcp_flow_id_written(m)
               /\ rtcp_flow_id_written(n) # rtcp_flow_id_written(m)

\* C37: src_pads holds exactly the open RTP stream pads: the pad of every
\* stream state that has one is mapped to that state, and every key of
\* src_pads is a pad that is still on the element and is the pad of the state
\* it is mapped to.
C37_SrcPadsHoldsOpenStreams ==
    /\ \A key \in DOMAIN ssrcs :
           ssrcs[key].stream_pad # NullPad =>
               /\ ssrcs[key].stream_pad \in DOMAIN src_pads
               /\ src_pads[ssrcs[key].stream_pad] = key
    /\ \A p \in DOMAIN src_pads :
           /\ p \in 1..Len(pads)
           /\ pads[p].state = "linked"
           /\ src_pads[p] \in DOMAIN ssrcs
           /\ ssrcs[src_pads[p]].stream_pad = p

\* C36: every call of rtp_quic_mux_new_uni_src_pad has returned with
\* roqmux->mutex unlocked as often as it locked it, whether the stream was
\* opened or not: between two handlers the mutex is not held.
C36_NewUniSrcPadLockBalanced == mutex_depth = 0

(***************************************************************************)
(* SpecMgrThreads: two threads call gst_roq_flow_id_manager_new_flow_id,   *)
(* the first calls constructing the manager                                *)
(***************************************************************************)
\* Calls each thread makes.
MaxCalls == 2

thrOnly ==
    UNCHANGED <<flowVars, cfgVars, muxVars, aborted, last, sent, wire,
                delivered, demux_rtp_flow_id, demux_rtcp_flow_id,
                quic_streams, out, parsed, demux_rv, routeVars, streamVars,
                pendVars, muxThrVars>>

\* gst_roq_flow_id_manager_new_flow_id is entered with flow_id.
mgr_call(t, flow_id) ==
    /\ tpc[t] = "idle"
    /\ tlocal[t].calls < MaxCalls
    /\ tpc' = [tpc EXCEPT ![t] = "constructor"]
    /\ tlocal' = [tlocal EXCEPT ![t].flow_id = flow_id, ![t].manager = 0,
                                ![t].rv = "none"]
    /\ UNCHANGED <<mgr_self, mgr_lists>>
    /\ thrOnly

\* gst_roq_flow_id_manager_constructor, line 93: self is read, and returned
\* with a new reference when it is set.
mgr_constructor_test(t) ==
    /\ tpc[t] = "constructor"
    /\ IF mgr_self = 0
       THEN /\ tpc' = [tpc EXCEPT ![t] = "construct"]
            /\ UNCHANGED tlocal
       ELSE /\ tpc' = [tpc EXCEPT ![t] = "new_flow_id"]
            /\ tlocal' = [tlocal EXCEPT ![t].manager = mgr_self]
    /\ UNCHANGED <<mgr_self, mgr_lists>>
    /\ thrOnly

\* Lines 94-97: the parent constructor makes an instance, self is set to it.
mgr_constructor_new(t) ==
    /\ tpc[t] = "construct"
    /\ mgr_lists' = Append(mgr_lists, <<>>)
    /\ mgr_self' = Len(mgr_lists) + 1
    /\ tlocal' = [tlocal EXCEPT ![t].manager = Len(mgr_lists) + 1]
    /\ tpc' = [tpc EXCEPT ![t] = "new_flow_id"]
    /\ thrOnly

\* _roq_flow_id_manager_new_flow_id_instance on the instance the thread got,
\* under that instance's mutex.
mgr_new_flow_id_instance(t) ==
    LET manager == tlocal[t].manager
        flow_id == tlocal[t].flow_id
        rv == new_flow_id_rv(mgr_lists[manager], flow_id)
    IN  /\ tpc[t] = "new_flow_id"
        /\ mgr_lists' = [mgr_lists EXCEPT
                            ![manager] = new_flow_id_list(@, flow_id)]
        /\ tlocal' = [tlocal EXCEPT
                         ![t].rv = IF rv THEN "TRUE" ELSE "FALSE",
                         ![t].calls = @ + 1,
                         ![t].won = IF rv THEN @ \cup {flow_id} ELSE @]
        /\ tpc' = [tpc EXCEPT ![t] = "idle"]
        /\ UNCHANGED mgr_self
        /\ thrOnly

MgrCall == \E t \in Threads, flow_id \in FlowIds : mgr_call(t, flow_id)
MgrConstructorTest == \E t \in Threads : mgr_constructor_test(t)
MgrConstructorNew == \E t \in Threads : mgr_constructor_new(t)
MgrNewFlowId == \E t \in Threads : mgr_new_flow_id_instance(t)

NextMgrThreads ==
    MgrCall \/ MgrConstructorTest \/ MgrConstructorNew \/ MgrNewFlowId

SpecMgrThreads == InitFlow /\ [][NextMgrThreads]_vars

\* C31: of the calls of two threads that claim the same flow id, the first
\* calls ever made included, one returns TRUE and the others FALSE: no id is
\* granted to both threads, there is one manager instance, and a call is
\* refused only for an id that was granted.
C31_ConcurrentClaimGrantsOnce ==
    /\ Len(mgr_lists) <= 1
    /\ \A t, u \in Threads : t # u => tlocal[t].won \cap tlocal[u].won = {}
    /\ \A t \in Threads :
           tlocal[t].rv = "FALSE" =>
               \E u \in Threads : tlocal[t].flow_id \in tlocal[u].won

(***************************************************************************)
(* SpecMuxThreads: gst_rtp_quic_mux_rtp_chain run by two streaming threads *)
(* for the same (ssrc, pt), stream mode, and the transport unlinking pads  *)
(***************************************************************************)
\* g_new0 (RtpQuicMuxStream, 1) and g_mutex_init: mutex is the thread that
\* holds stream->mutex (0: none).
NewStreamObj ==
    [counter |-> 0, frame_cancelled |-> FALSE, stream_pad |-> NullPad,
     mutex |-> 0]

\* The state of the muxer a step of a thread works on.
thr_context ==
    [objs |-> stream_objs, pads |-> tpads, src_pads |-> tsrc_pads,
     rec |-> rec_mutex, log |-> tlog]

thr_commit(c) ==
    /\ stream_objs' = c.objs
    /\ tpads' = c.pads
    /\ tsrc_pads' = c.src_pads
    /\ rec_mutex' = c.rec
    /\ tlog' = c.log
    /\ UNCHANGED tcb

muxThrOnly ==
    UNCHANGED <<flowVars, cfgVars, muxVars, last, sent, wire, delivered,
                demux_rtp_flow_id, demux_rtcp_flow_id, quic_streams, out,
                parsed, demux_rv, routeVars, streamVars, pendVars, mgr_self,
                mgr_lists>>

\* Thread t reads or writes field of stream object s: the log keeps the field
\* when t does not hold the mutex of s.
thr_access(c, t, s, field) ==
    IF c.objs[s].mutex = t THEN c ELSE [c EXCEPT !.log.unlocked = field]

\* src_pads as it is when gst_element_remove_pad is called for pad on the
\* paths of the chain function and of rtp_quic_mux_pt_hash_destroy: the
\* g_hash_table_remove stands before it (lines 625-626, 1050-1051, 1198-1199,
\* 1233-1234).
src_pads_at_removal(table, pad) == hash_remove(table, pad)

\* g_hash_table_remove and gst_element_remove_pad for the pad of stream s by
\* thread t.  Removing a linked pad unlinks it, so
\* rtp_quic_mux_pad_unlinked_callback runs in t before the removal returns:
\* it locks the mutex of the stream it finds in src_pads.
thr_remove_pad(c, t, s) ==
    LET pad == c.objs[s].stream_pad
        table == src_pads_at_removal(c.src_pads, pad)
        linked == pad # NullPad /\ c.pads[pad] = "linked"
        found == linked /\ pad \in DOMAIN table
    IN  [c EXCEPT
           !.src_pads = table,
           !.pads = IF pad = NullPad THEN @
                    ELSE [@ EXCEPT ![pad] = "removed"],
           !.log.relocked = IF found /\ c.objs[table[pad]].mutex = t
                            THEN "chain" ELSE @,
           !.log.removed_locked = @ \/ (linked /\ c.objs[s].mutex = t)]

\* Lines 1027-1030 and 1052-1054: rtp_quic_mux_new_uni_src_pad called by t for
\* stream s, and its result entered in src_pads.  The function locks
\* roqmux->mutex and leaves it locked when the link fails.
thr_open_stream(c, t, s, link) ==
    LET pad == IF link = "ok" THEN Len(c.pads) + 1 ELSE NullPad
    IN  [c EXCEPT
           !.pads = Append(@, IF link = "ok" THEN "linked" ELSE "failed"),
           !.rec = IF link = "ok" THEN @
                   ELSE [owner |-> t, depth |-> @.depth + 1],
           !.log.order = IF c.objs[s].mutex = t
                         THEN "component_after_stream" ELSE @,
           !.objs[s].stream_pad = pad,
           !.src_pads = hash_insert(@, pad, s)]

\* g_rec_mutex_lock (&roqmux->mutex) by t returns.
rec_mutex_free(t) == rec_mutex.owner \in {0, t}

\* The thread returns from the chain function, or never returns from the
\* lock of a mutex it holds.
thr_return(t, c, rv) ==
    /\ tpc' = [tpc EXCEPT ![t] = IF c.log.relocked # "none" THEN "deadlocked"
                                 ELSE "idle"]
    /\ tlocal' = [tlocal EXCEPT ![t].rv = rv, ![t].calls = @ + 1]

thr_goto(t, c, pc) ==
    tpc' = [tpc EXCEPT ![t] = IF c.log.relocked # "none" THEN "deadlocked" ELSE pc]

\* Buffers the two threads deliver in all
MaxBufs == 3

\* Buffers thread t has brought to the chain function so far
thr_entered(t) == tlocal[t].calls + (IF tpc[t] = "idle" THEN 0 ELSE 1)

\* gst_rtp_quic_mux_rtp_chain is entered by t with a buffer.
thr_chain_enter(t, marker, delta) ==
    /\ ~aborted
    /\ tpc[t] = "idle"
    /\ thr_entered(1) + thr_entered(2) < MaxBufs
    /\ tpc' = [tpc EXCEPT ![t] = "lookup"]
    /\ tlocal' = [tlocal EXCEPT ![t].marker = marker, ![t].delta = delta,
                                ![t].stream = 0, ![t].target = NullPad,
                                ![t].rv = "none"]
    /\ UNCHANGED <<aborted, stream_table, muxThrVars>>
    /\ muxThrOnly

\* Lines 981-984: the stream state is looked up in roqmux->ssrcs.
thr_lookup(t) ==
    /\ ~aborted
    /\ tpc[t] = "lookup"
    /\ tlocal' = [tlocal EXCEPT ![t].stream = stream_table]
    /\ tpc' = [tpc EXCEPT ![t] = IF stream_table = 0 THEN "create"
                                 ELSE "lock"]
    /\ UNCHANGED <<aborted, muxThrVars>>
    /\ muxThrOnly

\* Lines 986-1010: a stream state is allocated and inserted.  When the key is
\* in the table by now, g_hash_table_insert destroys the state that was there
\* (rtp_quic_mux_pt_hash_destroy, which locks its mutex), puts the new one in
\* its place and returns FALSE: the g_assert fails.
thr_create(t) ==
    LET new == Len(stream_objs) + 1
        c0 == [thr_context EXCEPT !.objs = Append(@, NewStreamObj)]
    IN  /\ ~aborted
        /\ tpc[t] = "create"
        /\ stream_table' = new
        /\ tlocal' = [tlocal EXCEPT ![t].stream = new]
        /\ tpc' = [tpc EXCEPT ![t] = "lock"]
        /\ IF stream_table = 0
           THEN thr_commit(c0) /\ UNCHANGED aborted
           ELSE /\ stream_objs[stream_table].mutex = 0
                /\ LET c1 == [c0 EXCEPT !.objs[stream_table].mutex = t]
                       c2 == thr_remove_pad(c1, t, stream_table)
                   IN  thr_commit([c2 EXCEPT
                                     !.objs[stream_table].mutex = 0,
                                     !.log.replaced = TRUE])
                /\ aborted' = TRUE
        /\ muxThrOnly

\* Line 1013
thr_lock(t) ==
    LET s == tlocal[t].stream
    IN  /\ ~aborted
        /\ tpc[t] = "lock"
        /\ stream_objs[s].mutex = 0
        /\ stream_objs' = [stream_objs EXCEPT ![s].mutex = t]
        /\ tpc' = [tpc EXCEPT ![t] = "cancelled"]
        /\ UNCHANGED <<aborted, tlocal, stream_table, rec_mutex, tpads,
                       tsrc_pads, tlog, tcb>>
        /\ muxThrOnly

\* Lines 1015-1024
thr_cancelled(t) ==
    LET s == tlocal[t].stream
        c0 == thr_access(thr_context, t, s, "frame_cancelled")
    IN  /\ ~aborted
        /\ tpc[t] = "cancelled"
        /\ IF c0.objs[s].frame_cancelled /\ ~tlocal[t].marker
           THEN LET c1 == [c0 EXCEPT !.objs[s].mutex = 0]
                IN  thr_commit(c1) /\ thr_return(t, c1, "OK")
           ELSE LET c1 == [c0 EXCEPT !.objs[s].frame_cancelled = FALSE]
                IN  /\ thr_commit(c1)
                    /\ thr_goto(t, c1, "open")
                    /\ UNCHANGED tlocal
        /\ UNCHANGED <<aborted, stream_table>>
        /\ muxThrOnly

\* Lines 1026-1031
thr_open(t, link) ==
    LET s == tlocal[t].stream
        c0 == thr_access(thr_context, t, s, "stream_pad")
    IN  /\ ~aborted
        /\ tpc[t] = "open"
        /\ IF c0.objs[s].stream_pad = NullPad
           THEN /\ rec_mutex_free(t)
                /\ thr_commit(thr_open_stream(c0, t, s, link))
           ELSE /\ link = "ok"
                /\ thr_commit(c0)
        /\ tpc' = [tpc EXCEPT ![t] = "boundary"]
        /\ UNCHANGED <<aborted, stream_table, tlocal>>
        /\ muxThrOnly

\* Lines 1041-1058: the boundary policy before the push.
thr_boundary(t, link) ==
    LET s == tlocal[t].stream
        c0 == thr_access(thr_context, t, s, "counter")
        rollover == c0.objs[s].counter + 1 > stream_packing_ratio
    IN  /\ ~aborted
        /\ tpc[t] = "boundary"
        /\ IF stream_boundary = "FRAME" /\ tlocal[t].marker
           THEN LET c1 == [c0 EXCEPT !.objs[s].counter = @ + 1]
                IN  link = "ok" /\ thr_commit(c1) /\ thr_goto(t, c1, "unlock")
           ELSE IF stream_boundary = "GOP" /\ ~tlocal[t].delta
           THEN IF rollover
                THEN LET c1 == thr_remove_pad(c0, t, s)
                         c2 == thr_open_stream(c1, t, s, link)
                         c3 == [c2 EXCEPT !.objs[s].counter = 0]
                     IN  /\ rec_mutex_free(t)
                         /\ thr_commit(c3)
                         /\ thr_goto(t, c3, "unlock")
                ELSE LET c1 == [c0 EXCEPT !.objs[s].counter = @ + 1]
                     IN  /\ link = "ok"
                         /\ thr_commit(c1)
                         /\ thr_goto(t, c1, "unlock")
           ELSE link = "ok" /\ thr_commit(thr_context)
                /\ thr_goto(t, thr_context, "unlock")
        /\ UNCHANGED <<aborted, stream_table, tlocal>>
        /\ muxThrOnly

\* Lines 1060-1074 and 1096-1099: the target pad is taken from the stream
\* state, the mutex is unlocked; without a pad the chain returns.
thr_unlock(t) ==
    LET s == tlocal[t].stream
        c0 == thr_access(thr_context, t, s, "stream_pad")
        target == c0.objs[s].stream_pad
        c1 == [c0 EXCEPT !.objs[s].mutex = 0]
    IN  /\ ~aborted
        /\ tpc[t] = "unlock"
        /\ thr_commit(c1)
        /\ IF target = NullPad
           THEN thr_return(t, c1, "NOT_NEGOTIATED")
           ELSE /\ tlocal' = [tlocal EXCEPT ![t].target = target]
                /\ thr_goto(t, c1, "push")
        /\ UNCHANGED <<aborted, stream_table>>
        /\ muxThrOnly

\* Line 1184: gst_pad_push returns res.
thr_push(t, res) ==
    /\ ~aborted
    /\ tpc[t] = "push"
    /\ tlocal' = [tlocal EXCEPT ![t].rv = res]
    /\ tpc' = [tpc EXCEPT ![t] = "close_test"]
    /\ UNCHANGED <<aborted, muxThrVars>>
    /\ muxThrOnly

\* Lines 1188-1190: the condition of the FRAME close, which increments the
\* counter.
thr_close_test(t) ==
    LET s == tlocal[t].stream
        c0 == thr_access(thr_context, t, s, "counter")
        c1 == [c0 EXCEPT !.objs[s].counter = @ + 1]
    IN  /\ ~aborted
        /\ tpc[t] = "close_test"
        /\ IF stream_boundary = "FRAME"
           THEN /\ thr_commit(c1)
                /\ thr_goto(t, c1,
                       IF c1.objs[s].counter >= stream_packing_ratio
                       THEN "frame_close" ELSE "stopped")
           ELSE /\ thr_commit(thr_context)
                /\ thr_goto(t, thr_context, "stopped")
        /\ UNCHANGED <<aborted, stream_table, tlocal>>
        /\ muxThrOnly

\* Lines 1194-1203: the FRAME close, from the lock to the unlock.
thr_frame_close(t) ==
    LET s == tlocal[t].stream
        c0 == [thr_context EXCEPT !.objs[s].mutex = t]
        c1 == IF c0.objs[s].stream_pad # NullPad
              THEN [thr_remove_pad(c0, t, s) EXCEPT
                      !.objs[s].stream_pad = NullPad]
              ELSE c0
        c2 == [c1 EXCEPT !.objs[s].counter = 0, !.objs[s].mutex = 0]
    IN  /\ ~aborted
        /\ tpc[t] = "frame_close"
        /\ stream_objs[s].mutex = 0
        /\ thr_commit(c2)
        /\ thr_goto(t, c2, "stopped")
        /\ UNCHANGED <<aborted, stream_table, tlocal>>
        /\ muxThrOnly

\* Lines 1206-1251: GST_FLOW_QUIC_STREAM_CLOSED is handled under the mutex of
\* the stream, and the chain returns.
thr_stopped(t) ==
    LET s == tlocal[t].stream
        c0 == [thr_context EXCEPT !.objs[s].mutex = t,
                                  !.objs[s].frame_cancelled = TRUE]
        c1 == IF c0.objs[s].stream_pad # NullPad
              THEN [thr_remove_pad(c0, t, s) EXCEPT
                      !.objs[s].stream_pad = NullPad]
              ELSE c0
        c2 == [c1 EXCEPT !.objs[s].counter = 0, !.objs[s].mutex = 0]
    IN  /\ ~aborted
        /\ tpc[t] = "stopped"
        /\ IF tlocal[t].rv = "QUIC_STREAM_CLOSED"
           THEN /\ stream_objs[s].mutex = 0
                /\ thr_commit(c2)
                /\ thr_return(t, c2, "OK")
           ELSE /\ thr_commit(thr_context)
                /\ thr_return(t, thr_context, tlocal[t].rv)
        /\ UNCHANGED <<aborted, stream_table>>
        /\ muxThrOnly

\* The thread of the transport, which unlinks stream pads
Transport == Cardinality(Threads) + 1

\* Lines 743-755: the transport unlinks the pad self and
\* rtp_quic_mux_pad_unlinked_callback looks it up in src_pads; when it finds
\* a stream state it goes on to lock the mutex of that state.
thr_unlinked_lookup(self) ==
    /\ ~aborted
    /\ tcb = NoCallback
    /\ tpads[self] = "linked"
    /\ tpads' = [tpads EXCEPT ![self] = "unlinked"]
    /\ tcb' = IF self \in DOMAIN tsrc_pads
              THEN [pad |-> self, stream |-> tsrc_pads[self]]
              ELSE NoCallback
    /\ UNCHANGED <<aborted, tpc, tlocal, stream_table, stream_objs, rec_mutex,
                   tsrc_pads, tlog>>
    /\ muxThrOnly

\* Lines 757-761: the callback, from the lock to the unlock.  The pad in
\* stream->stream_pad is removed from the element before it is taken out of
\* src_pads: when it is linked, its removal runs the callback again in the
\* same thread, which finds the stream state and locks its mutex.
thr_unlinked_locked ==
    LET s == tcb.stream
        pad == stream_objs[s].stream_pad
        linked == pad # NullPad /\ tpads[pad] = "linked"
        found == linked /\ pad \in DOMAIN tsrc_pads
        relocked == found /\ tsrc_pads[pad] = s
    IN  /\ ~aborted
        /\ tcb # NoCallback
        /\ stream_objs[s].mutex = 0
        /\ tpads' = IF pad = NullPad THEN tpads
                    ELSE [tpads EXCEPT ![pad] = "removed"]
        /\ IF relocked
           THEN /\ stream_objs' = [stream_objs EXCEPT ![s].mutex = Transport]
                /\ tlog' = [tlog EXCEPT !.relocked = "callback"]
                /\ UNCHANGED <<tsrc_pads, tcb>>
           ELSE /\ stream_objs' = [stream_objs EXCEPT
                                      ![s].stream_pad = NullPad]
                /\ tsrc_pads' = hash_remove(tsrc_pads, pad)
                /\ tcb' = NoCallback
                /\ UNCHANGED tlog
        /\ UNCHANGED <<aborted, tpc, tlocal, stream_table, rec_mutex>>
        /\ muxThrOnly

\* stream-boundary is written before the first buffer.
ThrSetStreamBoundary ==
    /\ \A t \in Threads : tpc[t] = "idle" /\ tlocal[t].calls = 0
    /\ UNCHANGED thrVars
    /\ \E v \in {"FRAME", "GOP", "SINGLE"} :
           /\ ~aborted
           /\ stream_boundary' = v
           /\ UNCHANGED <<flowVars, stream_packing_ratio, uni_stream_type,
                          use_datagrams, add_uni_stream_header, muxVars,
                          aborted, last, sent, wire, delivered,
                          demux_rtp_flow_id, demux_rtcp_flow_id, quic_streams,
                          out, parsed, demux_rv, routeVars, streamVars,
                          pendVars>>
ThrChainEnter ==
    \E t \in Threads, marker \in BOOLEAN, delta \in BOOLEAN :
        thr_chain_enter(t, marker, delta)
ThrLookup == \E t \in Threads : thr_lookup(t)
ThrCreate == \E t \in Threads : thr_create(t)
ThrLock == \E t \in Threads : thr_lock(t)
ThrCancelled == \E t \in Threads : thr_cancelled(t)
ThrOpen == \E t \in Threads, link \in LinkResults : thr_open(t, link)
ThrBoundary == \E t \in Threads, link \in LinkResults : thr_boundary(t, link)
ThrUnlock == \E t \in Threads : thr_unlock(t)
ThrPush ==
    \E t \in Threads, res \in {"OK", "QUIC_STREAM_CLOSED"} : thr_push(t, res)
ThrCloseTest == \E t \in Threads : thr_close_test(t)
ThrFrameClose == \E t \in Threads : thr_frame_close(t)
ThrStopped == \E t \in Threads : thr_stopped(t)
ThrUnlinkedLookup == \E self \in 1..Len(tpads) : thr_unlinked_lookup(self)
ThrUnlinkedLocked == thr_unlinked_locked

NextMuxThreads ==
    \/ ThrSetStreamBoundary
    \/ ThrChainEnter
    \/ ThrLookup
    \/ ThrCreate
    \/ ThrLock
    \/ ThrCancelled
    \/ ThrOpen
    \/ ThrBoundary
    \/ ThrUnlock
    \/ ThrPush
    \/ ThrCloseTest
    \/ ThrFrameClose
    \/ ThrStopped
    \/ ThrUnlinkedLookup
    \/ ThrUnlinkedLocked

SpecMuxThreads == Init /\ [][NextMuxThreads]_vars

\* C33: two threads that deliver the first packet of the same new (SSRC, PT)
\* create exactly one stream state: no second RtpQuicMuxStream is allocated
\* and no entry of the table is replaced.
C33_OneStreamStatePerKey ==
    /\ Len(stream_objs) <= 1
    /\ ~tlog.replaced

\* C32: every read and write of the counter, frame_cancelled and stream_pad
\* of a stream state is made by a thread that holds the mutex of that state.
C32_StreamFieldsUnderMutex == tlog.unlocked = "none"

\* C34: no thread acquires the mutex of the muxer while it holds the mutex of
\* a stream state.
C34_ComponentMutexBeforeStreamMutex == tlog.order = "none"

\* C38: no thread locks the mutex of a stream state it already holds: a pad
\* removed under that mutex is out of src_pads by then, so the unlinked
\* callback run by the removal finds no stream state.
C38_NoSelfDeadlockOnStreamMutex == tlog.relocked = "none"

(***************************************************************************)
(* SpecDemuxThreads: the handlers of the demuxer on two threads of the     *)
(* transport, and pads unlinked by a third; gstrtpquicdemux.c has no lock  *)
(***************************************************************************)
\* Stream ids the transport announces: unidirectional streams of the client
ThrStreamIds == {RtStream, "uni_stream_next"}

dthrOnly ==
    UNCHANGED <<flowVars, cfgVars, muxVars, aborted, last, sent, wire,
                delivered, demux_rtp_flow_id, demux_rtcp_flow_id, out, parsed,
                demux_rv, routeVars, streamVars, pendVars, mgr_self,
                mgr_lists, stream_table, stream_objs, rec_mutex, tpads,
                tsrc_pads, tcb>>

\* What a thread at pc is in the middle of using: the query holds the result
\* of its lookup in quic_streams and goes through rtp_quic_demux_get_src_pad
\* (routing tables, pending list) to the insert; the chain function holds the
\* stream it looked up until the remove of line 1106; a datagram is routed
\* through rtp_quic_demux_get_src_pad.
demux_accessed(pc) ==
    CASE pc = "query_insert" -> {"quic_streams", "routing", "pending"}
      [] pc = "chain_deliver" -> {"quic_streams"}
      [] pc = "datagram_route" -> {"routing", "pending"}
      [] OTHER -> {}

dthr_return(t, rv) ==
    /\ tpc' = [tpc EXCEPT ![t] = "idle"]
    /\ tlocal' = [tlocal EXCEPT ![t].rv = rv, ![t].calls = @ + 1]

\* gst_rtp_quic_demux_query, QUICLIB_STREAM_OPEN, lines 1131-1142: the stream
\* id is looked up; nothing is locked.
dthr_query_lookup(t, id) ==
    /\ tpc[t] = "idle"
    /\ tlocal[t].calls < MaxCalls
    /\ IF id \in DOMAIN quic_streams
       THEN dthr_return(t, "FALSE")
       ELSE /\ tpc' = [tpc EXCEPT ![t] = "query_insert"]
            /\ tlocal' = [tlocal EXCEPT ![t].stream = id, ![t].rv = "none"]
    /\ UNCHANGED <<quic_streams, tlog>>
    /\ dthrOnly

\* Lines 1221-1248: the stream state is made, its src pad found, and the
\* state inserted under the stream id when the pad is linked.
dthr_query_insert(t, linked) ==
    /\ tpc[t] = "query_insert"
    /\ IF linked
       THEN /\ quic_streams' = hash_insert(quic_streams, tlocal[t].stream,
                                  [buf |-> NullBuf, expected_payloadlen |-> 0])
            /\ dthr_return(t, "TRUE")
       ELSE /\ UNCHANGED quic_streams
            /\ dthr_return(t, "FALSE")
    /\ UNCHANGED tlog
    /\ dthrOnly

\* gst_rtp_quic_demux_chain, lines 935-941: a chunk of stream id; the stream
\* state is looked up.
dthr_chain_lookup(t, id, final) ==
    /\ tpc[t] = "idle"
    /\ tlocal[t].calls < MaxCalls
    /\ IF id \in DOMAIN quic_streams
       THEN /\ tpc' = [tpc EXCEPT ![t] = "chain_deliver"]
            /\ tlocal' = [tlocal EXCEPT ![t].stream = id, ![t].marker = final,
                                        ![t].rv = "none"]
       ELSE dthr_return(t, "NOT_LINKED")
    /\ UNCHANGED <<quic_streams, tlog>>
    /\ dthrOnly

\* Lines 942-1113: the chunk is delivered from the stream state; with the
\* final bit the state is removed from quic_streams.
dthr_chain_deliver(t) ==
    /\ tpc[t] = "chain_deliver"
    /\ quic_streams' = IF tlocal[t].marker
                       THEN hash_remove(quic_streams, tlocal[t].stream)
                       ELSE quic_streams
    /\ dthr_return(t, "OK")
    /\ UNCHANGED tlog
    /\ dthrOnly

\* gst_rtp_quic_demux_chain for a datagram: rtp_quic_demux_get_src_pad is
\* entered (lines 849-879).
dthr_datagram_route(t) ==
    /\ tpc[t] = "idle"
    /\ tlocal[t].calls < MaxCalls
    /\ tpc' = [tpc EXCEPT ![t] = "datagram_route"]
    /\ tlocal' = [tlocal EXCEPT ![t].rv = "none"]
    /\ UNCHANGED <<quic_streams, tlog>>
    /\ dthrOnly

\* The pad is found or made and the datagram pushed (lines 1094-1113).
dthr_datagram_push(t) ==
    /\ tpc[t] = "datagram_route"
    /\ dthr_return(t, "OK")
    /\ UNCHANGED <<quic_streams, tlog>>
    /\ dthrOnly

\* rtp_quic_demux_pad_unlinked for the pad of stream id, line 1448, on the
\* thread that unlinks: the log keeps the structure a thread of the transport
\* is using meanwhile.
dthr_pad_unlinked(id) ==
    /\ id \in DOMAIN quic_streams
    /\ quic_streams' = hash_remove(quic_streams, id)
    /\ tlog' = IF \E t \in Threads : "quic_streams" \in demux_accessed(tpc[t])
               THEN [tlog EXCEPT !.overlap = "quic_streams"]
               ELSE tlog
    /\ UNCHANGED <<tpc, tlocal>>
    /\ dthrOnly

DthrQueryLookup ==
    \E t \in Threads, id \in ThrStreamIds : dthr_query_lookup(t, id)
DthrQueryInsert ==
    \E t \in Threads, linked \in BOOLEAN : dthr_query_insert(t, linked)
DthrChainLookup ==
    \E t \in Threads, id \in ThrStreamIds, final \in BOOLEAN :
        dthr_chain_lookup(t, id, final)
DthrChainDeliver == \E t \in Threads : dthr_chain_deliver(t)
DthrDatagramRoute == \E t \in Threads : dthr_datagram_route(t)
DthrDatagramPush == \E t \in Threads : dthr_datagram_push(t)
DthrPadUnlinked == \E id \in ThrStreamIds : dthr_pad_unlinked(id)

NextDemuxThreads ==
    \/ DthrQueryLookup
    \/ DthrQueryInsert
    \/ DthrChainLookup
    \/ DthrChainDeliver
    \/ DthrDatagramRoute
    \/ DthrDatagramPush
    \/ DthrPadUnlinked

SpecDemuxThreads == Init /\ [][NextDemuxThreads]_vars

\* C35: no two threads use the stream-id map, the routing tables or the
\* pending-sink list of the demuxer at the same time, and no pad is unlinked
\* while a thread uses the stream-id map.
C35_DemuxTablesExclusive ==
    /\ tlog.overlap = "none"
    /\ \A t1 \in Threads : \A t2 \in Threads \ {t1} :
           demux_accessed(tpc[t1]) \cap demux_accessed(tpc[t2]) = {}

====
